---- MODULE Spec2Model ----
(***************************************************************************)
(* The deck state machine of pybravo (src/src/pybravo/state.py):           *)
(* BravoDeckState, its Nest entities and their value objects.              *)
(*                                                                         *)
(* Spec         one caller, every BravoDeckState method is one step.        *)
(* SpecThreads  several threads; a method is split at its lock operations   *)
(*              and at the reads and writes of shared fields between them.  *)
(*                                                                         *)
(* Python values: None is the empty tuple and an Optional value v is <<v>>; *)
(* a dict is a function from its keys; float volumes and progress are       *)
(* integer-valued; a dict that can be shared (operation_details) lives in   *)
(* `heap` and is referred to by its index.                                  *)
(***************************************************************************)
EXTENDS Integers, Sequences, FiniteSets, TLC

VARIABLES
    num_nests,               \* BravoDeckState.num_nests
    nests,                   \* BravoDeckState.nests: nest_id -> Nest
    global_operation_count,  \* BravoDeckState.global_operation_count
    error_count,             \* BravoDeckState.error_count
    last_error,              \* BravoDeckState.last_error
    initialization_time,     \* BravoDeckState.initialization_time
    heap,                    \* the dict objects operation_details can refer to
    held,                    \* dicts the caller built and still holds
    clock,                   \* the value the next datetime.now() returns
    trace,                   \* ghost: the calls made so far: op, nest_id, args, ret
    budget,                  \* ghost: the number of calls the caller makes
    lock_owner,              \* _lock: the thread holding the RLock, or None
    lock_depth,              \* _lock: its recursion level
    pc,                      \* per thread: position in the method it executes
    frame,                   \* per thread: the method's arguments and locals
    returned,                \* per thread: what its last call returned
    driver,                  \* the BravoDriver object, or None when none is constructed
    sdk,                     \* ghost: the calls made on the AxHomewood control
    simulation,              \* the visualizer server's simulate_operation_with_state: its
                             \* arguments and position, or None when it never ran
    connection               \* the driver's _connect_to_visualizer: its locals and position,
                             \* or None when the driver runs without a visualizer

deckvars == <<num_nests, nests, global_operation_count, error_count, last_error,
              initialization_time, heap, held, clock>>
threadvars == <<lock_owner, lock_depth, pc, frame, returned>>
drivervars == <<driver, sdk>>
visualizervars == <<simulation, connection>>
vars == <<deckvars, trace, budget, threadvars, drivervars, visualizervars>>

----------------------------------------------------------------------------
\* Bounds of the model

\* largest num_nests a deck is constructed with
MaxNests == 2
\* calls the caller of Spec makes
MaxCalls == 2
\* calls the caller of SpecOps makes
MaxOpsCalls == 3
\* calls the caller of SpecVolume makes
MaxVolumeCalls == 4
\* calls the caller of SpecDeck makes
MaxDeckCalls == 2
\* calls the caller of SpecLabware makes
MaxLabwareCalls == 3
\* calls the threads of SpecFair make in all
MaxFairCalls == 2
\* calls the caller of SpecReads makes
MaxReadCalls == 3
\* calls the caller of SpecTips makes
MaxTipCalls == 3
\* calls the caller of SpecCycle makes: two cycles of three calls
MaxCycleCalls == 6
\* calls the caller of SpecDriver makes
MaxDriverCalls == 3
\* calls the caller of SpecProgress makes
MaxProgressCalls == 3
\* deck calls after which the server starts no further simulated operation
MaxSimulationCalls == 4

\* threads of SpecThreads
NumThreads == 2
\* calls the threads of SpecThreads make in all
MaxThreadCalls == 3

----------------------------------------------------------------------------
\* Python values

None == <<>>
Some(v) == <<v>>
\* the truth value of an Optional[str]: None and "" are falsy
Truthy(o) == o /= None /\ o /= Some("")

EmptyDict == <<>>
\* d[k] = v on a dict
DictSet(d, k, v) == [x \in (DOMAIN d) \cup {k} |-> IF x = k THEN v ELSE d[x]]

\* mutant: the label is compared as it is given
Lower_as_given(s) == s

\* str.lower() on the labels the callers of the model pass
Lower(s) ==
    CASE s = "Mixing" -> "mixing"
      [] s = "TIP_RACK" -> "tip_rack"
      [] OTHER -> s

OperationStatusValues ==
    {"idle", "aspirating", "dispensing", "mixing", "washing", "moving",
     "picking", "placing", "pumping", "error"}

LabwareTypeValues ==
    {"microplate_96", "microplate_384", "deepwell_96", "reservoir", "tip_rack",
     "empty", "unknown"}


\* mutant: the label is taken as it is, with no lookup among the members
OperationStatus_unchecked(value) == Some(value)

\* OperationStatus(value): the member, or None for the ValueError
OperationStatus(value) == IF value \in OperationStatusValues THEN Some(value) ELSE None

\* LabwareType(value): the member, or None for the ValueError
LabwareType(value) == IF value \in LabwareTypeValues THEN Some(value) ELSE None

----------------------------------------------------------------------------
\* Value objects

VolumeInfo ==
    [current_volume |-> 0, aspirated_volume |-> 0, dispensed_volume |-> 0,
     last_operation_volume |-> 0, total_aspirated |-> 0, total_dispensed |-> 0]

TipInfo ==
    [tips_loaded |-> FALSE, tip_type |-> None, tip_volume |-> None,
     tip_count |-> 0, last_tip_operation |-> None]

\* OperationInfo(); details is the heap index of its own new dict
OperationInfo(details) ==
    [status |-> "idle", operation_details |-> details, start_time |-> None,
     estimated_duration |-> None, progress |-> 0]

Nest(i, details) ==
    [nest_id |-> i, labware_type |-> "empty", labware_name |-> None,
     volume_info |-> VolumeInfo, tip_info |-> TipInfo,
     operation_info |-> OperationInfo(details),
     custom_properties |-> EmptyDict, last_accessed |-> None]

Max(a, b) == IF a >= b THEN a ELSE b
Min(a, b) == IF a <= b THEN a ELSE b

----------------------------------------------------------------------------
\* OperationInfo and Nest methods: the new value of the object; t is the value
\* of the datetime.now() the method calls


\* mutant: progress is not set back to 0
OperationInfo_start_operation_keeps_progress(oi, status, details, t) ==
    [oi EXCEPT !.status = status, !.operation_details = details,
               !.start_time = Some(t)]

OperationInfo_start_operation(oi, status, details, t) ==
    [oi EXCEPT !.status = status, !.operation_details = details,
               !.start_time = Some(t), !.progress = 0]


\* mutant: start_time is not cleared
OperationInfo_complete_operation_keeps_start_time(oi) ==
    [oi EXCEPT !.status = "idle", !.progress = 100]

\* mutant: progress += 100 in place of progress = 100
OperationInfo_complete_operation_adds_progress(oi) ==
    [oi EXCEPT !.status = "idle", !.start_time = None, !.progress = @ + 100]

\* operation_details.clear() acts on the heap: see ClearDict
OperationInfo_complete_operation(oi) ==
    [oi EXCEPT !.status = "idle", !.start_time = None, !.progress = 100]

\* mutant: the progress is stored as given
OperationInfo_update_progress_unclamped(oi, progress) ==
    [oi EXCEPT !.progress = progress]

OperationInfo_update_progress(oi, progress) ==
    [oi EXCEPT !.progress = Max(0, Min(100, progress))]

\* mutant: new labware puts the nest's operation back to idle
Nest_set_labware_idles(nest, labware_type, labware_name, t) ==
    [nest EXCEPT !.labware_type = labware_type, !.labware_name = labware_name,
                 !.operation_info.status = "idle", !.last_accessed = Some(t)]

Nest_set_labware(nest, labware_type, labware_name, t) ==
    [nest EXCEPT !.labware_type = labware_type, !.labware_name = labware_name,
                 !.last_accessed = Some(t)]

\* two datetime.now() calls: start_time, then last_accessed
Nest_start_operation(nest, operation, details, t) ==
    [nest EXCEPT
        !.operation_info = OperationInfo_start_operation(@, operation, details, t),
        !.last_accessed = Some(t + 1)]

Nest_complete_operation(nest, t) ==
    [nest EXCEPT !.operation_info = OperationInfo_complete_operation(@),
                 !.last_accessed = Some(t)]


\* mutant: current_volume is floored at 0
Nest_update_volume_clamped(nest, aspirated, dispensed, t) ==
    [nest EXCEPT
        !.volume_info.aspirated_volume = @ + aspirated,
        !.volume_info.dispensed_volume = @ + dispensed,
        !.volume_info.total_aspirated = @ + aspirated,
        !.volume_info.total_dispensed = @ + dispensed,
        !.volume_info.current_volume = Max(0, @ + (aspirated - dispensed)),
        !.volume_info.last_operation_volume = Max(aspirated, dispensed),
        !.last_accessed = Some(t)]

\* mutant: last_operation_volume keeps the largest volume seen
Nest_update_volume_keeps_largest(nest, aspirated, dispensed, t) ==
    [nest EXCEPT
        !.volume_info.aspirated_volume = @ + aspirated,
        !.volume_info.dispensed_volume = @ + dispensed,
        !.volume_info.total_aspirated = @ + aspirated,
        !.volume_info.total_dispensed = @ + dispensed,
        !.volume_info.current_volume = @ + (aspirated - dispensed),
        !.volume_info.last_operation_volume = Max(@, Max(aspirated, dispensed)),
        !.last_accessed = Some(t)]

Nest_update_volume(nest, aspirated, dispensed, t) ==
    [nest EXCEPT
        !.volume_info.aspirated_volume = @ + aspirated,
        !.volume_info.dispensed_volume = @ + dispensed,
        !.volume_info.total_aspirated = @ + aspirated,
        !.volume_info.total_dispensed = @ + dispensed,
        !.volume_info.current_volume = @ + (aspirated - dispensed),
        !.volume_info.last_operation_volume = Max(aspirated, dispensed),
        !.last_accessed = Some(t)]

\* update_volume up to the totals: the first four assignments
Nest_update_volume_totals(nest, aspirated, dispensed) ==
    [nest EXCEPT
        !.volume_info.aspirated_volume = @ + aspirated,
        !.volume_info.dispensed_volume = @ + dispensed,
        !.volume_info.total_aspirated = @ + aspirated,
        !.volume_info.total_dispensed = @ + dispensed]

\* update_volume from current_volume on: the last three assignments
Nest_update_volume_current(nest, aspirated, dispensed, t) ==
    [nest EXCEPT
        !.volume_info.current_volume = @ + (aspirated - dispensed),
        !.volume_info.last_operation_volume = Max(aspirated, dispensed),
        !.last_accessed = Some(t)]

\* mutant: taking the tips off forgets their type
Nest_update_tips_forgets(nest, tips_on, tip_type, t) ==
    [nest EXCEPT
        !.tip_info.tips_loaded = tips_on,
        !.tip_info.tip_type = IF tips_on /\ Truthy(tip_type) THEN tip_type
                              ELSE IF tips_on THEN @ ELSE None,
        !.tip_info.last_tip_operation = Some(IF tips_on THEN "tips_on" ELSE "tips_off"),
        !.last_accessed = Some(t)]

\* update_tips_at_nest passes no tip_count, so tip_count is 0 and is left alone
Nest_update_tips(nest, tips_on, tip_type, t) ==
    [nest EXCEPT
        !.tip_info.tips_loaded = tips_on,
        !.tip_info.tip_type = IF Truthy(tip_type) THEN tip_type ELSE @,
        !.tip_info.last_tip_operation = Some(IF tips_on THEN "tips_on" ELSE "tips_off"),
        !.last_accessed = Some(t)]


\* mutant: tip_info.reset() is left out
Nest_reset_nest_keeps_tips(nest, t) ==
    [nest EXCEPT
        !.labware_type = "empty",
        !.labware_name = None,
        !.volume_info = VolumeInfo,
        !.operation_info = OperationInfo_complete_operation(@),
        !.custom_properties = EmptyDict,
        !.last_accessed = Some(t)]

\* mutant: the lifetime totals survive the reset
Nest_reset_nest_keeps_totals(nest, t) ==
    [nest EXCEPT
        !.labware_type = "empty",
        !.labware_name = None,
        !.volume_info = [VolumeInfo EXCEPT
                            !.total_aspirated = nest.volume_info.total_aspirated,
                            !.total_dispensed = nest.volume_info.total_dispensed],
        !.tip_info = TipInfo,
        !.operation_info = OperationInfo_complete_operation(@),
        !.custom_properties = EmptyDict,
        !.last_accessed = Some(t)]

Nest_reset_nest(nest, t) ==
    [nest EXCEPT
        !.labware_type = "empty",
        !.labware_name = None,
        !.volume_info = VolumeInfo,
        !.tip_info = TipInfo,
        !.operation_info = OperationInfo_complete_operation(@),
        !.custom_properties = EmptyDict,
        !.last_accessed = Some(t)]

\* datetime.isoformat(): the text of a timestamp
isoformat(t) == <<"iso", t>>

Nest_get_summary(nest) ==
    [nest_id |-> nest.nest_id,
     labware_type |-> nest.labware_type,
     labware_name |-> nest.labware_name,
     operation_status |-> nest.operation_info.status,
     current_volume |-> nest.volume_info.current_volume,
     tips_loaded |-> nest.tip_info.tips_loaded,
     last_accessed |-> IF nest.last_accessed /= None
                       THEN Some(isoformat(nest.last_accessed[1])) ELSE None]

----------------------------------------------------------------------------
\* What the callers pass

\* nest ids: every valid one, and -1, 0 and num_nests + 1
ValidIds == 1..num_nests
AllIds == (0 - 1)..(num_nests + 1)
\* the details dict a caller builds for start_operation_at_nest
CallerDetails == [volume |-> 100]

----------------------------------------------------------------------------
\* BravoDeckState
\* Each method is an operator over the deck's variables and `trace`.

\* the call that returned last, and the number of calls made
call == trace[Len(trace)]
calls == Len(trace) - 1

Returns(op, nest_id, args, ret) ==
    trace' = Append(trace, [op |-> op, nest_id |-> nest_id, args |-> args, ret |-> ret])

\* mutant: the nests are keyed from 0
DeckInit_zero_based(n) ==
    /\ num_nests = n
    /\ nests = [i \in 0..(n - 1) |-> Nest(i, i + 1)]
    /\ heap = [i \in 1..n |-> EmptyDict]
    /\ held = {}
    /\ global_operation_count = 0
    /\ error_count = 0
    /\ last_error = None
    /\ initialization_time = 0
    /\ clock = 1

\* __init__ and _initialize_nests: Nest i gets the i-th dict as operation_details
DeckInit(n) ==
    /\ num_nests = n
    /\ nests = [i \in 1..n |-> Nest(i, i)]
    /\ heap = [i \in 1..n |-> EmptyDict]
    /\ held = {}
    /\ global_operation_count = 0
    /\ error_count = 0
    /\ last_error = None
    /\ initialization_time = 0
    /\ clock = 1


\* mutant: an id that is out of range falls back to the first nest
get_nest_or_first(nest_id) ==
    IF nest_id \in DOMAIN nests THEN Some(nest_id) ELSE Some(1)

\* the nest's key, or None
get_nest(nest_id) ==
    IF ~(1 <= nest_id /\ nest_id <= num_nests) THEN None
    ELSE IF nest_id \in DOMAIN nests THEN Some(nest_id) ELSE None

set_labware_at_nest(nest_id, labware_type, labware_name) ==
    LET nest == get_nest(nest_id)
        parsed == LabwareType(Lower(labware_type))
        labware_enum == IF parsed = None THEN "unknown" ELSE parsed[1]
    IN  IF nest /= None
        THEN /\ nests' = [nests EXCEPT ![nest[1]] =
                            Nest_set_labware(@, labware_enum, labware_name, clock)]
             /\ clock' = clock + 1
             /\ Returns("set_labware_at_nest", Some(nest_id), <<labware_type, labware_name>>, TRUE)
             /\ UNCHANGED <<num_nests, global_operation_count, error_count, last_error,
                            initialization_time, heap, held>>
        ELSE /\ Returns("set_labware_at_nest", Some(nest_id), <<labware_type, labware_name>>, FALSE)
             /\ UNCHANGED deckvars

\* `if nest:` and the label parses: the call goes on to start the operation
starts_operation(nest_id, operation) ==
    get_nest(nest_id) /= None /\ OperationStatus(Lower(operation)) /= None

\* details: None, or Some(r) with r the index in h of the caller's dict; h is the
\* heap at the call. `details or {}` makes a new dict when details is None or empty.
\* `nest.start_operation(operation_enum, details or {})`
nest_start_operation(nest_id, operation, details, h) ==
    LET nest == get_nest(nest_id)
        operation_enum == OperationStatus(Lower(operation))
        fresh == details = None \/ h[details[1]] = EmptyDict
        h1 == IF fresh THEN Append(h, EmptyDict) ELSE h
        ref == IF fresh THEN Len(h1) ELSE details[1]
    IN  /\ nests' = [nests EXCEPT ![nest[1]] =
                        Nest_start_operation(@, operation_enum[1], ref, clock)]
        /\ heap' = h1
        /\ held' = IF details = None THEN held ELSE held \cup {details[1]}
        /\ clock' = clock + 2

\* mutant: a nest with an operation in progress refuses another one
start_operation_at_nest_if_idle(nest_id, operation, details, h) ==
    IF /\ starts_operation(nest_id, operation)
       /\ nests[nest_id].operation_info.status = "idle"
    THEN /\ nest_start_operation(nest_id, operation, details, h)
         /\ global_operation_count' = global_operation_count + 1
         /\ Returns("start_operation_at_nest", Some(nest_id), <<operation, details>>, TRUE)
         /\ UNCHANGED <<num_nests, error_count, last_error, initialization_time>>
    ELSE /\ Returns("start_operation_at_nest", Some(nest_id), <<operation, details>>, FALSE)
         /\ UNCHANGED deckvars

start_operation_at_nest(nest_id, operation, details, h) ==
    IF starts_operation(nest_id, operation)
    THEN /\ nest_start_operation(nest_id, operation, details, h)
         /\ global_operation_count' = global_operation_count + 1
         /\ Returns("start_operation_at_nest", Some(nest_id), <<operation, details>>, TRUE)
         /\ UNCHANGED <<num_nests, error_count, last_error, initialization_time>>
    ELSE /\ Returns("start_operation_at_nest", Some(nest_id), <<operation, details>>, FALSE)
         /\ UNCHANGED deckvars


\* mutant: `return True` is outside the `if nest:`
complete_operation_at_nest_always_true(nest_id) ==
    LET nest == get_nest(nest_id)
    IN  IF nest /= None
        THEN /\ nests' = [nests EXCEPT ![nest[1]] = Nest_complete_operation(@, clock)]
             /\ heap' = [heap EXCEPT
                           ![nests[nest[1]].operation_info.operation_details] = EmptyDict]
             /\ clock' = clock + 1
             /\ Returns("complete_operation_at_nest", Some(nest_id), <<>>, TRUE)
             /\ UNCHANGED <<num_nests, global_operation_count, error_count, last_error,
                            initialization_time, held>>
        ELSE /\ Returns("complete_operation_at_nest", Some(nest_id), <<>>, TRUE)
             /\ UNCHANGED deckvars

\* mutant: completing an operation takes it off the count again
complete_operation_at_nest_uncounts(nest_id) ==
    LET nest == get_nest(nest_id)
    IN  IF nest /= None
        THEN /\ nests' = [nests EXCEPT ![nest[1]] = Nest_complete_operation(@, clock)]
             /\ heap' = [heap EXCEPT
                           ![nests[nest[1]].operation_info.operation_details] = EmptyDict]
             /\ clock' = clock + 1
             /\ global_operation_count' = global_operation_count - 1
             /\ Returns("complete_operation_at_nest", Some(nest_id), <<>>, TRUE)
             /\ UNCHANGED <<num_nests, error_count, last_error, initialization_time, held>>
        ELSE /\ Returns("complete_operation_at_nest", Some(nest_id), <<>>, FALSE)
             /\ UNCHANGED deckvars

complete_operation_at_nest(nest_id) ==
    LET nest == get_nest(nest_id)
    IN  IF nest /= None
        THEN /\ nests' = [nests EXCEPT ![nest[1]] = Nest_complete_operation(@, clock)]
             /\ heap' = [heap EXCEPT
                           ![nests[nest[1]].operation_info.operation_details] = EmptyDict]
             /\ clock' = clock + 1
             /\ Returns("complete_operation_at_nest", Some(nest_id), <<>>, TRUE)
             /\ UNCHANGED <<num_nests, global_operation_count, error_count, last_error,
                            initialization_time, held>>
        ELSE /\ Returns("complete_operation_at_nest", Some(nest_id), <<>>, FALSE)
             /\ UNCHANGED deckvars

\* mutant: the volumes are booked on every nest of the deck
update_volume_at_nest_on_every_nest(nest_id, aspirated, dispensed) ==
    LET nest == get_nest(nest_id)
    IN  IF nest /= None
        THEN /\ nests' = [i \in DOMAIN nests |->
                            Nest_update_volume(nests[i], aspirated, dispensed, clock)]
             /\ clock' = clock + 1
             /\ Returns("update_volume_at_nest", Some(nest_id), <<aspirated, dispensed>>, TRUE)
             /\ UNCHANGED <<num_nests, global_operation_count, error_count, last_error,
                            initialization_time, heap, held>>
        ELSE /\ Returns("update_volume_at_nest", Some(nest_id), <<aspirated, dispensed>>, FALSE)
             /\ UNCHANGED deckvars

update_volume_at_nest(nest_id, aspirated, dispensed) ==
    LET nest == get_nest(nest_id)
    IN  IF nest /= None
        THEN /\ nests' = [nests EXCEPT ![nest[1]] =
                            Nest_update_volume(@, aspirated, dispensed, clock)]
             /\ clock' = clock + 1
             /\ Returns("update_volume_at_nest", Some(nest_id), <<aspirated, dispensed>>, TRUE)
             /\ UNCHANGED <<num_nests, global_operation_count, error_count, last_error,
                            initialization_time, heap, held>>
        ELSE /\ Returns("update_volume_at_nest", Some(nest_id), <<aspirated, dispensed>>, FALSE)
             /\ UNCHANGED deckvars

update_tips_at_nest(nest_id, tips_on, tip_type) ==
    LET nest == get_nest(nest_id)
    IN  IF nest /= None
        THEN /\ nests' = [nests EXCEPT ![nest[1]] =
                            Nest_update_tips(@, tips_on, tip_type, clock)]
             /\ clock' = clock + 1
             /\ Returns("update_tips_at_nest", Some(nest_id), <<tips_on, tip_type>>, TRUE)
             /\ UNCHANGED <<num_nests, global_operation_count, error_count, last_error,
                            initialization_time, heap, held>>
        ELSE /\ Returns("update_tips_at_nest", Some(nest_id), <<tips_on, tip_type>>, FALSE)
             /\ UNCHANGED deckvars

\* nest_id is None or Some(n); `if nest_id and self.get_nest(nest_id)`
log_error(error_message, nest_id) ==
    LET pinned == nest_id /= None /\ nest_id[1] /= 0 /\ get_nest(nest_id[1]) /= None
        ref == nests[nest_id[1]].operation_info.operation_details
    IN  /\ error_count' = error_count + 1
        /\ last_error' = Some(error_message)
        /\ IF pinned
           THEN /\ nests' = [nests EXCEPT ![nest_id[1]].operation_info.status = "error"]
                /\ heap' = [heap EXCEPT ![ref] = DictSet(@, "error", error_message)]
           ELSE UNCHANGED <<nests, heap>>
        /\ Returns("log_error", nest_id, <<error_message>>, None)
        /\ UNCHANGED <<num_nests, global_operation_count, initialization_time, held,
                       clock>>

\* the nests are reset in key order, each with its own datetime.now()
reset_all_nests ==
    /\ nests' = [i \in DOMAIN nests |-> Nest_reset_nest(nests[i], clock + (i - 1))]
    /\ heap' = [r \in DOMAIN heap |->
                  IF \E i \in DOMAIN nests : nests[i].operation_info.operation_details = r
                  THEN EmptyDict ELSE heap[r]]
    /\ clock' = clock + num_nests
    /\ global_operation_count' = 0
    /\ error_count' = 0
    /\ last_error' = None
    /\ Returns("reset_all_nests", None, <<>>, None)
    /\ UNCHANGED <<num_nests, initialization_time, held>>

\* the keys of self.nests in the order of self.nests.values()
NestKeys == [i \in 1..num_nests |-> i]

\* mutant: a nest in Error status does not count as active
get_active_operations_without_errors ==
    LET active(i) == nests[i].operation_info.status \notin {"idle", "error"}
        keys == SelectSeq(NestKeys, active)
    IN  [k \in 1..Len(keys) |->
            [nest_id |-> nests[keys[k]].nest_id,
             operation |-> nests[keys[k]].operation_info.status,
             details |-> nests[keys[k]].operation_info.operation_details,
             progress |-> nests[keys[k]].operation_info.progress,
             start_time |-> nests[keys[k]].operation_info.start_time]]

\* "details" is the nest's dict itself, not a copy
get_active_operations ==
    LET active(i) == nests[i].operation_info.status /= "idle"
        keys == SelectSeq(NestKeys, active)
    IN  [k \in 1..Len(keys) |->
            [nest_id |-> nests[keys[k]].nest_id,
             operation |-> nests[keys[k]].operation_info.status,
             details |-> nests[keys[k]].operation_info.operation_details,
             progress |-> nests[keys[k]].operation_info.progress,
             start_time |-> nests[keys[k]].operation_info.start_time]]

\* mutant: a nest of Unknown labware is not counted
get_nests_with_labware_known ==
    LET loaded(i) == nests[i].labware_type \notin {"empty", "unknown"}
        keys == SelectSeq(NestKeys, loaded)
    IN  [k \in 1..Len(keys) |->
            [nest_id |-> nests[keys[k]].nest_id,
             labware_type |-> nests[keys[k]].labware_type,
             labware_name |-> nests[keys[k]].labware_name]]

get_nests_with_labware ==
    LET loaded(i) == nests[i].labware_type /= "empty"
        keys == SelectSeq(NestKeys, loaded)
    IN  [k \in 1..Len(keys) |->
            [nest_id |-> nests[keys[k]].nest_id,
             labware_type |-> nests[keys[k]].labware_type,
             labware_name |-> nests[keys[k]].labware_name]]

get_nests_with_tips ==
    LET tips(i) == nests[i].tip_info.tips_loaded
        keys == SelectSeq(NestKeys, tips)
    IN  [k \in 1..Len(keys) |-> nests[keys[k]].nest_id]

find_empty_nests ==
    LET empty(i) == nests[i].labware_type = "empty"
        keys == SelectSeq(NestKeys, empty)
    IN  [k \in 1..Len(keys) |-> nests[keys[k]].nest_id]

\* mutant: a label that does not parse is looked for as Unknown
find_nests_by_labware_type_or_unknown(labware_type) ==
    LET parsed == LabwareType(Lower(labware_type))
        target_type == IF parsed = None THEN "unknown" ELSE parsed[1]
        of_type(i) == nests[i].labware_type = target_type
        keys == SelectSeq(NestKeys, of_type)
    IN  [k \in 1..Len(keys) |-> nests[keys[k]].nest_id]

\* the ValueError of LabwareType(...) is caught and [] returned
find_nests_by_labware_type(labware_type) ==
    LET target_type == LabwareType(Lower(labware_type))
        of_type(i) == nests[i].labware_type = target_type[1]
        keys == SelectSeq(NestKeys, of_type)
    IN  IF target_type = None THEN <<>>
        ELSE [k \in 1..Len(keys) |-> nests[keys[k]].nest_id]

deck_info ==
    [num_nests |-> num_nests,
     initialization_time |-> isoformat(initialization_time),
     global_operation_count |-> global_operation_count,
     error_count |-> error_count,
     last_error |-> last_error]

get_deck_summary ==
    [deck_info |-> deck_info,
     active_operations |-> Len(get_active_operations),
     nests_with_labware |-> Len(get_nests_with_labware),
     nests_with_tips |-> Len(get_nests_with_tips),
     nests |-> [i \in DOMAIN nests |-> Nest_get_summary(nests[i])]]

\* mutant: looking a nest up counts as an access
get_nest_call_touches(nest_id) ==
    /\ Returns("get_nest", Some(nest_id), <<>>, get_nest(nest_id))
    /\ IF get_nest(nest_id) /= None
       THEN nests' = [nests EXCEPT ![nest_id].last_accessed = Some(clock)]
       ELSE UNCHANGED nests
    /\ clock' = clock + 1
    /\ UNCHANGED <<num_nests, global_operation_count, error_count, last_error,
                   initialization_time, heap, held>>

\* a call of get_nest: the nest's key (the Nest itself is handed out), or None
get_nest_call(nest_id) ==
    /\ Returns("get_nest", Some(nest_id), <<>>, get_nest(nest_id))
    /\ UNCHANGED deckvars

get_deck_summary_call ==
    /\ Returns("get_deck_summary", None, <<>>, get_deck_summary)
    /\ UNCHANGED deckvars

\* a call of get_active_operations; each entry's details is the reference it holds
get_active_operations_call ==
    /\ Returns("get_active_operations", None, <<>>, get_active_operations)
    /\ UNCHANGED deckvars

get_nests_with_labware_call ==
    /\ Returns("get_nests_with_labware", None, <<>>, get_nests_with_labware)
    /\ UNCHANGED deckvars

get_nests_with_tips_call ==
    /\ Returns("get_nests_with_tips", None, <<>>, get_nests_with_tips)
    /\ UNCHANGED deckvars

find_empty_nests_call ==
    /\ Returns("find_empty_nests", None, <<>>, find_empty_nests)
    /\ UNCHANGED deckvars

find_nests_by_labware_type_call(labware_type) ==
    /\ Returns("find_nests_by_labware_type", None, <<labware_type>>,
               find_nests_by_labware_type(labware_type))
    /\ UNCHANGED deckvars

\* "timestamp" is datetime.now()
export_state_to_dict_call ==
    /\ Returns("export_state_to_dict", None, <<>>,
               [deck_state |-> get_deck_summary,
                timestamp |-> isoformat(clock),
                version |-> "1.0"])
    /\ clock' = clock + 1
    /\ UNCHANGED <<num_nests, nests, global_operation_count, error_count, last_error,
                   initialization_time, heap, held>>

\* Nest.custom_properties is free-form: a collaborator writes it through the
\* Nest that get_nest returns
set_custom_property(nest_id, key, value) ==
    /\ get_nest(nest_id) /= None
    /\ nests' = [nests EXCEPT ![nest_id].custom_properties = DictSet(@, key, value)]
    /\ Returns("custom_properties", Some(nest_id), <<key, value>>, None)
    /\ UNCHANGED <<num_nests, global_operation_count, error_count, last_error,
                   initialization_time, heap, held, clock>>

\* OperationInfo.update_progress has no method of the deck: a collaborator calls it
\* on the Nest that get_nest returns
update_progress(nest_id, progress) ==
    /\ get_nest(nest_id) /= None
    /\ nests' = [nests EXCEPT ![nest_id].operation_info =
                    OperationInfo_update_progress(@, progress)]
    /\ Returns("update_progress", Some(nest_id), <<progress>>, None)
    /\ UNCHANGED <<num_nests, global_operation_count, error_count, last_error,
                   initialization_time, heap, held, clock>>

----------------------------------------------------------------------------
\* One caller: a step is one whole call, with arguments from the given sets

\* the program has constructed no driver
NoDriver ==
    /\ driver = None
    /\ sdk = <<>>

\* the program runs no visualizer
NoVisualizer ==
    /\ simulation = None
    /\ connection = None

ThreadsIdle ==
    /\ lock_owner = None
    /\ lock_depth = 0
    /\ pc = <<>>
    /\ frame = <<>>
    /\ returned = <<>>

InitCaller(max) ==
    /\ \E n \in 1..MaxNests :
          /\ DeckInit(n)
          /\ trace = <<[op |-> "__init__", nest_id |-> None, args |-> <<n>>, ret |-> None]>>
    /\ budget = max
    /\ NoDriver
    /\ NoVisualizer
    /\ ThreadsIdle

\* the caller has calls left; it runs no thread of SpecThreads
Called == calls < budget /\ UNCHANGED <<budget, threadvars, drivervars, visualizervars>>

SetLabwareAtNest(ids, args) ==
    \E n \in ids, a \in args : Called /\ set_labware_at_nest(n, a[1], a[2])

\* a[2] tells the details the caller passes: "none", "new" for a dict it builds
\* for the call, "held" for a dict it passed before and still holds
StartOperationAtNest(ids, args) ==
    \E n \in ids, a \in args :
      \E r \in (IF a[2] = "held" THEN held ELSE {0}) :
        /\ Called
        /\ start_operation_at_nest(n, a[1],
              CASE a[2] = "none" -> None
                [] a[2] = "new" -> Some(Len(heap) + 1)
                [] a[2] = "held" -> Some(r),
              IF a[2] = "new" THEN Append(heap, CallerDetails) ELSE heap)

CompleteOperationAtNest(ids) ==
    \E n \in ids : Called /\ complete_operation_at_nest(n)

UpdateVolumeAtNest(ids, args) ==
    \E n \in ids, a \in args : Called /\ update_volume_at_nest(n, a[1], a[2])

UpdateTipsAtNest(ids, args) ==
    \E n \in ids, a \in args : Called /\ update_tips_at_nest(n, a[1], a[2])

LogError(ids, messages) ==
    \E m \in messages, n \in {None} \cup {Some(i) : i \in ids} : 
        Called /\ log_error(m, n)

ResetAllNests == Called /\ reset_all_nests

SetCustomProperty ==
    \E n \in ValidIds : Called /\ set_custom_property(n, "barcode", 7)

UpdateProgress(ids, values) ==
    \E n \in ids, p \in values : Called /\ update_progress(n, p)

GetNest(ids) == \E n \in ids : Called /\ get_nest_call(n)

GetActiveOperations == Called /\ get_active_operations_call

GetNestsWithLabware == Called /\ get_nests_with_labware_call

GetNestsWithTips == Called /\ get_nests_with_tips_call

FindEmptyNests == Called /\ find_empty_nests_call

FindNestsByLabwareType(labels) ==
    \E l \in labels : Called /\ find_nests_by_labware_type_call(l)

ExportStateToDict == Called /\ export_state_to_dict_call

GetDeckSummary == Called /\ get_deck_summary_call

----------------------------------------------------------------------------
\* Spec: every mutator, valid and invalid nest ids, one argument choice each

StartArgs == {<<"Mixing", "new">>, <<"not_a_real_op", "none">>}
LabwareArgs == {<<"TIP_RACK", Some("Tips")>>}
VolumeArgs == {<<30, 50>>}
TipArgs == {<<TRUE, Some("standard")>>}
ErrorMessages == {"E1"}

Init == InitCaller(MaxCalls)

Next ==
    \/ SetLabwareAtNest(AllIds, LabwareArgs)
    \/ StartOperationAtNest(AllIds, StartArgs)
    \/ CompleteOperationAtNest(AllIds)
    \/ UpdateVolumeAtNest(AllIds, VolumeArgs)
    \/ UpdateTipsAtNest(AllIds, TipArgs)
    \/ LogError(AllIds, ErrorMessages)
    \/ ResetAllNests
    \/ SetCustomProperty
    \/ GetNest(AllIds)
    \/ GetDeckSummary

Spec == Init /\ [][Next]_vars

----------------------------------------------------------------------------
\* SpecOps: the operation lifecycle on valid nests and one invalid one

OpsIds == 1..(num_nests + 1)
OpsStartArgs == {<<"aspirating", "new">>, <<"idle", "none">>, <<"not_a_real_op", "new">>,
                 <<"Mixing", "held">>}
OpsErrorMessages == {"E1", "E2"}

InitOps == InitCaller(MaxOpsCalls)

NextOps ==
    \/ StartOperationAtNest(OpsIds, OpsStartArgs)
    \/ CompleteOperationAtNest(OpsIds)
    \/ LogError(ValidIds, OpsErrorMessages)
    \/ ResetAllNests
    \/ GetActiveOperations

SpecOps == InitOps /\ [][NextOps]_vars

----------------------------------------------------------------------------
\* SpecVolume: volume accounting

VolumeUpdates == {<<100, 0>>, <<0, 40>>, <<30, 50>>}

InitVolume == InitCaller(MaxVolumeCalls)

NextVolume ==
    \/ UpdateVolumeAtNest(ValidIds, VolumeUpdates)
    \/ CompleteOperationAtNest(ValidIds)
    \/ ResetAllNests

SpecVolume == InitVolume /\ [][NextVolume]_vars

----------------------------------------------------------------------------
\* SpecDeck: decks of every size, the default one included

\* `num_nests: int = 9`
DefaultNumNests == 9

DeckIds == (0 - 1)..(num_nests + 1)
DeckStartArgs == {<<"aspirating", "none">>}

\* BravoDeckState() or BravoDeckState(n)
InitDeck ==
    /\ \/ /\ DeckInit(DefaultNumNests)
          /\ trace = <<[op |-> "__init__", nest_id |-> None, args |-> <<>>, ret |-> None]>>
       \/ \E n \in 1..MaxNests :
            /\ DeckInit(n)
            /\ trace = <<[op |-> "__init__", nest_id |-> None, args |-> <<n>>,
                          ret |-> None]>>
    /\ budget = MaxDeckCalls
    /\ NoDriver
    /\ NoVisualizer
    /\ ThreadsIdle

NextDeck ==
    \/ GetNest(DeckIds)
    \/ SetLabwareAtNest(ValidIds, LabwareArgs)
    \/ StartOperationAtNest(ValidIds, DeckStartArgs)
    \/ CompleteOperationAtNest(ValidIds)
    \/ LogError(ValidIds, ErrorMessages)
    \/ ResetAllNests

SpecDeck == InitDeck /\ [][NextDeck]_vars

----------------------------------------------------------------------------
\* SpecLabware: labware labels of every kind, on nests that are in use

LabwareLabels ==
    {<<"TIP_RACK", Some("Tips")>>, <<"microplate_96", Some("X")>>,
     <<"not_a_labware", None>>}
LabwareStartArgs == {<<"aspirating", "none">>}

InitLabware == InitCaller(MaxLabwareCalls)

NextLabware ==
    \/ SetLabwareAtNest(ValidIds, LabwareLabels)
    \/ StartOperationAtNest(ValidIds, LabwareStartArgs)
    \/ UpdateVolumeAtNest(ValidIds, VolumeArgs)
    \/ UpdateTipsAtNest(ValidIds, TipArgs)

SpecLabware == InitLabware /\ [][NextLabware]_vars

----------------------------------------------------------------------------
\* SpecReads: every read operation, on decks that mutators have changed

ReadsLabwareArgs == {<<"TIP_RACK", Some("Tips")>>, <<"not_a_labware", None>>}
FindLabels == {"TIP_RACK", "empty", "not_a_labware"}
ReadsNestIds == {1, num_nests + 1}

InitReads == InitCaller(MaxReadCalls)

NextReads ==
    \/ SetLabwareAtNest(ValidIds, ReadsLabwareArgs)
    \/ StartOperationAtNest(ValidIds, LabwareStartArgs)
    \/ UpdateTipsAtNest(ValidIds, TipArgs)
    \/ LogError({1}, ErrorMessages)
    \/ GetNest(ReadsNestIds)
    \/ GetActiveOperations
    \/ GetNestsWithLabware
    \/ GetNestsWithTips
    \/ FindEmptyNests
    \/ FindNestsByLabwareType(FindLabels)
    \/ GetDeckSummary
    \/ ExportStateToDict

SpecReads == InitReads /\ [][NextReads]_vars

----------------------------------------------------------------------------
\* SpecTips: tips put on and taken off, with and without a tip type

TipsArgs ==
    {<<TRUE, Some("standard")>>, <<TRUE, Some("filtered")>>, <<TRUE, None>>,
     <<FALSE, None>>, <<FALSE, Some("")>>}
TipsIds == 1..(num_nests + 1)

InitTips == InitCaller(MaxTipCalls)

NextTips ==
    \/ UpdateTipsAtNest(TipsIds, TipsArgs)
    \/ SetLabwareAtNest({1}, LabwareArgs)
    \/ StartOperationAtNest({1}, LabwareStartArgs)
    \/ CompleteOperationAtNest({1})
    \/ ResetAllNests

SpecTips == InitTips /\ [][NextTips]_vars

----------------------------------------------------------------------------
\* SpecCycle: on a new default deck a caller runs the cycle
\* start_operation_at_nest, update_volume_at_nest, complete_operation_at_nest on
\* one nest after another

CycleStartArgs == {<<"aspirating", "new">>, <<"dispensing", "new">>}
CycleVolumes == {<<100, 0>>, <<0, 100>>}

InitCycle ==
    /\ DeckInit(DefaultNumNests)
    /\ trace = <<[op |-> "__init__", nest_id |-> None, args |-> <<>>, ret |-> None]>>
    /\ budget = MaxCycleCalls
    /\ NoDriver
    /\ NoVisualizer
    /\ ThreadsIdle

CycleStart ==
    /\ call.op \in {"__init__", "complete_operation_at_nest"}
    /\ StartOperationAtNest(ValidIds, CycleStartArgs)

CycleVolume ==
    /\ call.op = "start_operation_at_nest"
    /\ UpdateVolumeAtNest({call.nest_id[1]}, CycleVolumes)

CycleComplete ==
    /\ call.op = "update_volume_at_nest"
    /\ CompleteOperationAtNest({call.nest_id[1]})

NextCycle ==
    \/ CycleStart
    \/ CycleVolume
    \/ CycleComplete

SpecCycle == InitCycle /\ [][NextCycle]_vars

----------------------------------------------------------------------------
\* BravoDriver (core.py). The AxHomewood control is the vendor's COM object: a
\* call on it either goes through or raises, and `sdk` lists the calls made.

\* what a call of a driver method comes to: a returned value or a raised exception
Return(value) == [raises |-> None, message |-> <<>>, value |-> value]
Raise(class, message) == [raises |-> Some(class), message |-> message, value |-> None]

\* an exception message is the sequence of its parts; f"{prefix}{e}"
Failed(prefix, e) == <<prefix>> \o e
\* re.search(part, message), as pytest.raises(match=...) does
Mentions(message, part) == \E k \in DOMAIN message : message[k] = part

\* the exception a failing COM call raises
ComError == <<"COM error">>

\* BravoDriver(profile, simulation_mode) after __init__
BravoDriver(profile, simulation_mode) ==
    [profile |-> profile,
     simulation_mode |-> simulation_mode,
     _connected |-> FALSE,
     client |-> IF simulation_mode THEN None ELSE Some("AxHomewood"),
     _simulation_state |->
        IF simulation_mode
        THEN Some([current_position |-> [x |-> 0, y |-> 0, z |-> 0],
                   tips_loaded |-> FALSE,
                   liquid_volume |-> 0,
                   last_operation |-> None])
        ELSE None]

is_connected(d) == d._connected /\ (d.client /= None \/ d.simulation_mode)

_handle_simulation(method_name) ==
    CASE method_name \in {"get_activex_version", "get_firmware_version",
                          "get_hardware_version"} -> Some("SIMULATION_VERSION_1.0.0")
      [] method_name = "get_last_error" -> Some("No errors in simulation")
      [] OTHER -> None

\* the caller of the driver has calls left; it touches no deck and runs no thread
DriverCalled == calls < budget /\ UNCHANGED <<budget, deckvars, threadvars, visualizervars>>

\* @simulation_aware_method in simulation mode: the method's body is not run
simulated(method_name, args) ==
    /\ driver.simulation_mode
    /\ Returns(method_name, None, args, Return(_handle_simulation(method_name)))
    /\ UNCHANGED drivervars

\* `if not self.is_connected(): raise BravoCommandError("Device not connected")`
not_connected(method_name, args) ==
    /\ ~driver.simulation_mode
    /\ ~is_connected(driver)
    /\ Returns(method_name, None, args,
               Raise("BravoCommandError", <<"Device not connected">>))
    /\ UNCHANGED drivervars

\* `try: self.client.<Call>(...) except Exception as e: raise BravoCommandError(...)`
\* (the `if self.simulation_mode:` inside the try is never reached: in simulation
\* mode the decorator has returned before the body)
client_call(method_name, args, sdk_call, value, prefix) ==
    /\ ~driver.simulation_mode
    /\ sdk' = Append(sdk, sdk_call)
    /\ UNCHANGED driver
    /\ \E went_through \in BOOLEAN :
          Returns(method_name, None, args,
                  IF went_through THEN Return(value)
                  ELSE Raise("BravoCommandError", Failed(prefix, ComError)))

is_connected_call ==
    /\ Returns("is_connected", None, <<>>, Return(Some(is_connected(driver))))
    /\ UNCHANGED drivervars

\* the hardware branch never creates the control here: __init__ has created it
connect ==
    /\ driver' = [driver EXCEPT
                     !.client = IF ~driver.simulation_mode /\ @ = None
                                THEN Some("AxHomewood") ELSE @,
                     !._connected = TRUE]
    /\ sdk' = IF ~driver.simulation_mode /\ driver.client = None
              THEN Append(sdk, <<"CreateControl">>) ELSE sdk
    /\ Returns("connect", None, <<>>, Return(None))

\* disconnect, and _close for the hardware
disconnect ==
    IF driver.simulation_mode
    THEN /\ driver' = [driver EXCEPT !._connected = FALSE]
         /\ UNCHANGED sdk
         /\ Returns("disconnect", None, <<>>, Return(None))
    ELSE IF driver.client /= None
    THEN /\ sdk' = Append(sdk, <<"Close">>)
         /\ \E went_through \in BOOLEAN :
               IF went_through
               THEN /\ driver' = [driver EXCEPT !._connected = FALSE]
                    /\ Returns("disconnect", None, <<>>, Return(None))
               ELSE /\ UNCHANGED driver
                    /\ Returns("disconnect", None, <<>>,
                               Raise("BravoCommandError",
                                     Failed("Failed to close device: ", ComError)))
    ELSE /\ UNCHANGED drivervars
         /\ Returns("disconnect", None, <<>>, Return(None))

aspirate(volume, plate_location) ==
    \/ simulated("aspirate", <<volume, plate_location>>)
    \/ not_connected("aspirate", <<volume, plate_location>>)
    \/ /\ is_connected(driver)
       /\ client_call("aspirate", <<volume, plate_location>>,
                      <<"Aspirate", volume, plate_location>>, None,
                      "Failed to aspirate: ")

dispense(volume, plate_location) ==
    \/ simulated("dispense", <<volume, plate_location>>)
    \/ not_connected("dispense", <<volume, plate_location>>)
    \/ /\ is_connected(driver)
       /\ client_call("dispense", <<volume, plate_location>>,
                      <<"Dispense", volume, plate_location>>, None,
                      "Failed to dispense: ")

move_to_location(plate_location) ==
    \/ simulated("move_to_location", <<plate_location>>)
    \/ not_connected("move_to_location", <<plate_location>>)
    \/ /\ is_connected(driver)
       /\ client_call("move_to_location", <<plate_location>>,
                      <<"MoveToLocation", plate_location>>, None,
                      "Failed to move to location: ")

get_firmware_version ==
    \/ simulated("get_firmware_version", <<>>)
    \/ not_connected("get_firmware_version", <<>>)
    \/ /\ is_connected(driver)
       /\ client_call("get_firmware_version", <<>>, <<"GetFirmwareVersion">>,
                      Some("firmware"), "Failed to get firmware version: ")

\* the is_connected test is inside the try: its BravoCommandError is caught and wrapped
home_w ==
    \/ simulated("home_w", <<>>)
    \/ /\ ~driver.simulation_mode
       /\ ~is_connected(driver)
       /\ Returns("home_w", None, <<>>,
                  Raise("BravoCommandError",
                        Failed("Failed to home device: ", <<"Device not connected">>)))
       /\ UNCHANGED drivervars
    \/ /\ is_connected(driver)
       /\ client_call("home_w", <<>>, <<"HomeW">>, None, "Failed to home device: ")

\* no is_connected check: the control, which __init__ has created, is called
show_labware_editor ==
    \/ simulated("show_labware_editor", <<>>)
    \/ client_call("show_labware_editor", <<>>, <<"ShowLabwareEditor", 1>>, None,
                   "Failed to show labware editor: ")

tips_on(plate_location) ==
    \/ simulated("tips_on", <<plate_location>>)
    \/ not_connected("tips_on", <<plate_location>>)
    \/ /\ is_connected(driver)
       /\ client_call("tips_on", <<plate_location>>, <<"TipsOn", plate_location>>, None,
                      "Failed to turn on tips: ")

tips_off(plate_location) ==
    \/ simulated("tips_off", <<plate_location>>)
    \/ not_connected("tips_off", <<plate_location>>)
    \/ /\ is_connected(driver)
       /\ client_call("tips_off", <<plate_location>>, <<"TipsOff", plate_location>>, None,
                      "Failed to turn off tips: ")

\* a copy of _simulation_state, or None outside simulation mode
get_simulation_state ==
    /\ Returns("get_simulation_state", None, <<>>,
               Return(IF ~driver.simulation_mode THEN None ELSE driver._simulation_state))
    /\ UNCHANGED drivervars

IsConnected == DriverCalled /\ is_connected_call

Connect == DriverCalled /\ connect

Disconnect == DriverCalled /\ disconnect

Aspirate(volumes) == \E v \in volumes : DriverCalled /\ aspirate(v, 1)

Dispense(volumes) == \E v \in volumes : DriverCalled /\ dispense(v, 1)

MoveToLocation == DriverCalled /\ move_to_location(1)

GetFirmwareVersion == DriverCalled /\ get_firmware_version

HomeW == DriverCalled /\ home_w

ShowLabwareEditor == DriverCalled /\ show_labware_editor

TipsOn == DriverCalled /\ tips_on(1)

TipsOff == DriverCalled /\ tips_off(1)

GetSimulationState == DriverCalled /\ get_simulation_state

----------------------------------------------------------------------------
\* SpecDriver: one caller of a driver, in hardware or in simulation mode

Volumes == {0 - 10, 0, 100}

InitDriver ==
    /\ \E simulation_mode \in BOOLEAN :
          /\ driver = BravoDriver(None, simulation_mode)
          /\ sdk = IF simulation_mode THEN <<>> ELSE <<<<"CreateControl">>>>
          /\ trace = <<[op |-> "__init__", nest_id |-> None,
                        args |-> <<simulation_mode>>, ret |-> None]>>
    /\ DeckInit(DefaultNumNests)
    /\ budget = MaxDriverCalls
    /\ NoVisualizer
    /\ ThreadsIdle

NextDriver ==
    \/ IsConnected
    \/ Connect
    \/ Disconnect
    \/ Aspirate(Volumes)
    \/ Dispense(Volumes)
    \/ MoveToLocation
    \/ GetFirmwareVersion
    \/ HomeW
    \/ ShowLabwareEditor
    \/ TipsOn
    \/ TipsOff
    \/ GetSimulationState

SpecDriver == InitDriver /\ [][NextDriver]_vars

----------------------------------------------------------------------------
\* SpecProgress: the progress of an operation, reported from below 0 to above 100

ProgressValues == {0 - 5, 0, 50, 100, 150}

InitProgress == InitCaller(MaxProgressCalls)

NextProgress ==
    \/ StartOperationAtNest({1}, LabwareStartArgs)
    \/ UpdateProgress(ValidIds, ProgressValues)
    \/ CompleteOperationAtNest({1})
    \/ ResetAllNests

SpecProgress == InitProgress /\ [][NextProgress]_vars

----------------------------------------------------------------------------
\* SpecThreads: threads call the methods of one deck. A call is a sequence of
\* steps: every `with self._lock:` is an acquire step and a release step, and
\* `self.global_operation_count += 1` is a read step and a write step.

Threads == 1..NumThreads

\* mutant: a plain threading.Lock, which its own holder cannot take again
Lock_available(t) == lock_owner = None

\* mutant: the lock does not exclude other threads
RLock_available_to_all(t) == TRUE

\* threading.RLock: free, or held by the acquiring thread itself
RLock_available(t) == lock_owner = None \/ lock_owner = Some(t)

\* `with self._lock:` on entry; blocks while another thread holds the lock
RLock_acquire(t) ==
    /\ RLock_available(t)
    /\ lock_owner' = Some(t)
    /\ lock_depth' = lock_depth + 1

\* mutant: leaving a nested `with` gives the lock up altogether
RLock_release_at_once(t) ==
    /\ lock_depth' = 0
    /\ lock_owner' = None

\* `with self._lock:` on exit
RLock_release(t) ==
    /\ lock_depth' = lock_depth - 1
    /\ lock_owner' = IF lock_depth = 1 THEN None ELSE lock_owner

goto(t, label) == pc' = [pc EXCEPT ![t] = label]
\* the thread's return statement has produced the call that trace' ends with
returns(t) == returned' = [returned EXCEPT ![t] = Some(call')]

\* the calls thread t makes: each thread works on a nest of its own, nest t
ThreadCalls(t) ==
    {[op |-> "start_operation_at_nest", nest_id |-> Some(t),
      args |-> <<"aspirating", None>>, local |-> None],
     [op |-> "complete_operation_at_nest", nest_id |-> Some(t),
      args |-> <<>>, local |-> None],
     [op |-> "set_labware_at_nest", nest_id |-> Some(t),
      args |-> <<"TIP_RACK", None>>, local |-> None],
     [op |-> "update_tips_at_nest", nest_id |-> Some(t),
      args |-> <<TRUE, None>>, local |-> None],
     [op |-> "get_deck_summary", nest_id |-> None, args |-> <<>>, local |-> <<>>]}

\* calls made and not yet returned
InFlight == Cardinality({t \in Threads : pc[t] /= "idle"})

\* a thread calls a method
Enter(t) ==
    /\ pc[t] = "idle"
    /\ calls + InFlight < budget
    /\ \E c \in ThreadCalls(t) : frame' = [frame EXCEPT ![t] = Some(c)]
    /\ goto(t, "acquire")
    /\ UNCHANGED <<deckvars, trace, budget, drivervars, visualizervars, lock_owner, lock_depth, returned>>

\* the method's `with self._lock:`
Acquire(t) ==
    /\ pc[t] = "acquire"
    /\ RLock_acquire(t)
    /\ goto(t, frame[t][1].op)
    /\ UNCHANGED <<deckvars, trace, budget, drivervars, visualizervars, frame, returned>>

\* the end of the method's `with` block, after its return statement
Release(t) ==
    /\ pc[t] = "release"
    /\ RLock_release(t)
    /\ goto(t, "idle")
    /\ frame' = [frame EXCEPT ![t] = None]
    /\ UNCHANGED <<deckvars, trace, budget, drivervars, visualizervars, returned>>

T_set_labware_at_nest(t) ==
    /\ pc[t] = "set_labware_at_nest"
    /\ LET f == frame[t][1] IN set_labware_at_nest(f.nest_id[1], f.args[1], f.args[2])
    /\ returns(t)
    /\ goto(t, "release")
    /\ UNCHANGED <<budget, drivervars, visualizervars, lock_owner, lock_depth, frame>>

T_complete_operation_at_nest(t) ==
    /\ pc[t] = "complete_operation_at_nest"
    /\ complete_operation_at_nest(frame[t][1].nest_id[1])
    /\ returns(t)
    /\ goto(t, "release")
    /\ UNCHANGED <<budget, drivervars, visualizervars, lock_owner, lock_depth, frame>>

T_update_tips_at_nest(t) ==
    /\ pc[t] = "update_tips_at_nest"
    /\ LET f == frame[t][1] IN update_tips_at_nest(f.nest_id[1], f.args[1], f.args[2])
    /\ returns(t)
    /\ goto(t, "release")
    /\ UNCHANGED <<budget, drivervars, visualizervars, lock_owner, lock_depth, frame>>

\* start_operation_at_nest up to `nest.start_operation(...)`, or its `return False`
T_start_operation_at_nest(t) ==
    /\ pc[t] = "start_operation_at_nest"
    /\ LET f == frame[t][1]
       IN  IF starts_operation(f.nest_id[1], f.args[1])
           THEN /\ nest_start_operation(f.nest_id[1], f.args[1], f.args[2], heap)
                /\ goto(t, "count_read")
                /\ UNCHANGED <<num_nests, global_operation_count, error_count, last_error,
                               initialization_time, trace, returned>>
           ELSE /\ Returns(f.op, f.nest_id, f.args, FALSE)
                /\ returns(t)
                /\ goto(t, "release")
                /\ UNCHANGED deckvars
    /\ UNCHANGED <<budget, drivervars, visualizervars, lock_owner, lock_depth, frame>>

\* `self.global_operation_count += 1`: the read
T_count_read(t) ==
    /\ pc[t] = "count_read"
    /\ frame' = [frame EXCEPT ![t][1].local = Some(global_operation_count)]
    /\ goto(t, "count_write")
    /\ UNCHANGED <<deckvars, trace, budget, drivervars, visualizervars, lock_owner, lock_depth, returned>>

\* `self.global_operation_count += 1`: the write, and `return True`
T_count_write(t) ==
    /\ pc[t] = "count_write"
    /\ global_operation_count' = frame[t][1].local[1] + 1
    /\ LET f == frame[t][1] IN Returns(f.op, f.nest_id, f.args, TRUE)
    /\ returns(t)
    /\ goto(t, "release")
    /\ UNCHANGED <<num_nests, nests, error_count, last_error, initialization_time, heap,
                   held, clock, budget, drivervars, visualizervars, lock_owner, lock_depth, frame>>

\* get_deck_summary evaluates its dict display in order; local holds the values
\* computed so far: "deck_info" first
T_get_deck_summary(t) ==
    /\ pc[t] = "get_deck_summary"
    /\ frame' = [frame EXCEPT ![t][1].local = <<deck_info>>]
    /\ goto(t, "nested_acquire")
    /\ UNCHANGED <<deckvars, trace, budget, drivervars, visualizervars, lock_owner, lock_depth, returned>>

\* get_active_operations, get_nests_with_labware and get_nests_with_tips are
\* called in this order and each takes the lock again
T_nested_acquire(t) ==
    /\ pc[t] = "nested_acquire"
    /\ RLock_acquire(t)
    /\ goto(t, "nested_return")
    /\ UNCHANGED <<deckvars, trace, budget, drivervars, visualizervars, frame, returned>>

\* the nested call computes its list and releases the lock; len() of it is kept
T_nested_return(t) ==
    /\ pc[t] = "nested_return"
    /\ LET local == frame[t][1].local
           length == CASE Len(local) = 1 -> Len(get_active_operations)
                       [] Len(local) = 2 -> Len(get_nests_with_labware)
                       [] Len(local) = 3 -> Len(get_nests_with_tips)
       IN  /\ frame' = [frame EXCEPT ![t][1].local = Append(local, length)]
           /\ goto(t, IF Len(local) = 3 THEN "nests" ELSE "nested_acquire")
    /\ RLock_release(t)
    /\ UNCHANGED <<deckvars, trace, budget, drivervars, visualizervars, returned>>

\* "nests": the per-nest summaries, and the return of the dict
T_nests(t) ==
    /\ pc[t] = "nests"
    /\ frame[t][1].op = "get_deck_summary"
    /\ LET local == frame[t][1].local
       IN  Returns("get_deck_summary", None, <<>>,
                   [deck_info |-> local[1],
                    active_operations |-> local[2],
                    nests_with_labware |-> local[3],
                    nests_with_tips |-> local[4],
                    nests |-> [i \in DOMAIN nests |-> Nest_get_summary(nests[i])]])
    /\ returns(t)
    /\ goto(t, "release")
    /\ UNCHANGED <<deckvars, budget, drivervars, visualizervars, lock_owner, lock_depth, frame>>

\* the deck has a nest for every thread
InitThreads ==
    /\ DeckInit(NumThreads)
    /\ trace = <<[op |-> "__init__", nest_id |-> None, args |-> <<NumThreads>>,
                  ret |-> None]>>
    /\ budget = MaxThreadCalls
    /\ NoDriver
    /\ NoVisualizer
    /\ lock_owner = None
    /\ lock_depth = 0
    /\ pc = [t \in Threads |-> "idle"]
    /\ frame = [t \in Threads |-> None]
    /\ returned = [t \in Threads |-> None]

NextThreads ==
    \/ \E t \in Threads : Enter(t)
    \/ \E t \in Threads : Acquire(t)
    \/ \E t \in Threads : Release(t)
    \/ \E t \in Threads : T_set_labware_at_nest(t)
    \/ \E t \in Threads : T_complete_operation_at_nest(t)
    \/ \E t \in Threads : T_update_tips_at_nest(t)
    \/ \E t \in Threads : T_start_operation_at_nest(t)
    \/ \E t \in Threads : T_count_read(t)
    \/ \E t \in Threads : T_count_write(t)
    \/ \E t \in Threads : T_get_deck_summary(t)
    \/ \E t \in Threads : T_nested_acquire(t)
    \/ \E t \in Threads : T_nested_return(t)
    \/ \E t \in Threads : T_nests(t)

SpecThreads == InitThreads /\ [][NextThreads]_vars

----------------------------------------------------------------------------
\* SpecReaders: threads update volumes through the deck while others look a nest
\* up with get_nest and read its fields, as the visualizer does. update_volume is
\* split between its assignments; get_nest has no `with self._lock:`.

ReaderCalls ==
    {[op |-> "update_volume_at_nest", nest_id |-> Some(n), args |-> <<30, 50>>,
      local |-> None] : n \in ValidIds}
    \cup {[op |-> "get_nest", nest_id |-> Some(n), args |-> <<>>, local |-> None] :
            n \in 1..(num_nests + 1)}

\* a thread calls a method; get_nest starts at once, the others at their `with`
EnterReaders(t) ==
    /\ pc[t] = "idle"
    /\ calls + InFlight < budget
    /\ \E c \in ReaderCalls :
          /\ frame' = [frame EXCEPT ![t] = Some(c)]
          /\ goto(t, IF c.op = "get_nest" THEN "get_nest" ELSE "acquire")
    /\ UNCHANGED <<deckvars, trace, budget, drivervars, visualizervars, lock_owner, lock_depth, returned>>

\* update_volume_at_nest up to the totals of nest.update_volume, or `return False`
T_update_volume_at_nest(t) ==
    /\ pc[t] = "update_volume_at_nest"
    /\ LET f == frame[t][1]
           nest == get_nest(f.nest_id[1])
       IN  IF nest /= None
           THEN /\ nests' = [nests EXCEPT ![nest[1]] =
                               Nest_update_volume_totals(@, f.args[1], f.args[2])]
                /\ goto(t, "update_volume_current")
                /\ UNCHANGED <<num_nests, global_operation_count, error_count, last_error,
                               initialization_time, heap, held, clock, trace, returned>>
           ELSE /\ Returns(f.op, f.nest_id, f.args, FALSE)
                /\ returns(t)
                /\ goto(t, "release")
                /\ UNCHANGED deckvars
    /\ UNCHANGED <<budget, drivervars, visualizervars, lock_owner, lock_depth, frame>>

\* the rest of nest.update_volume, and `return True`
T_update_volume_current(t) ==
    /\ pc[t] = "update_volume_current"
    /\ LET f == frame[t][1]
       IN  /\ nests' = [nests EXCEPT ![f.nest_id[1]] =
                           Nest_update_volume_current(@, f.args[1], f.args[2], clock)]
           /\ Returns(f.op, f.nest_id, f.args, TRUE)
    /\ clock' = clock + 1
    /\ returns(t)
    /\ goto(t, "release")
    /\ UNCHANGED <<num_nests, global_operation_count, error_count, last_error,
                   initialization_time, heap, held, budget, drivervars, visualizervars, lock_owner, lock_depth, frame>>

\* get_nest: no lock is taken; the caller goes on to read the nest it was given
T_get_nest(t) ==
    /\ pc[t] = "get_nest"
    /\ get_nest_call(frame[t][1].nest_id[1])
    /\ returns(t)
    /\ IF get_nest(frame[t][1].nest_id[1]) /= None
       THEN goto(t, "read_nest") /\ UNCHANGED frame
       ELSE goto(t, "idle") /\ frame' = [frame EXCEPT ![t] = None]
    /\ UNCHANGED <<budget, drivervars, visualizervars, lock_owner, lock_depth>>

\* the caller reads the fields of the Nest that get_nest handed out
T_read_nest(t) ==
    /\ pc[t] = "read_nest"
    /\ LET nest == nests[frame[t][1].nest_id[1]]
       IN  returned' = [returned EXCEPT ![t] =
              Some([op |-> "read_nest", nest_id |-> frame[t][1].nest_id, args |-> <<>>,
                    ret |-> [labware_type |-> nest.labware_type,
                             labware_name |-> nest.labware_name,
                             current_volume |-> nest.volume_info.current_volume,
                             operation_status |-> nest.operation_info.status,
                             tips_loaded |-> nest.tip_info.tips_loaded]])]
    /\ goto(t, "idle")
    /\ frame' = [frame EXCEPT ![t] = None]
    /\ UNCHANGED <<deckvars, trace, budget, drivervars, visualizervars, lock_owner, lock_depth>>

NextReaders ==
    \/ \E t \in Threads : EnterReaders(t)
    \/ \E t \in Threads : Acquire(t)
    \/ \E t \in Threads : Release(t)
    \/ \E t \in Threads : T_update_volume_at_nest(t)
    \/ \E t \in Threads : T_update_volume_current(t)
    \/ \E t \in Threads : T_get_nest(t)
    \/ \E t \in Threads : T_read_nest(t)

SpecReaders == InitThreads /\ [][NextReaders]_vars

----------------------------------------------------------------------------
\* SpecFair: the calls that nest lock acquisitions and the calls that return
\* early, by threads that the scheduler keeps running

\* the calls thread t makes
FairCalls(t) ==
    {[op |-> "start_operation_at_nest", nest_id |-> Some(t),
      args |-> <<"aspirating", None>>, local |-> None],
     [op |-> "start_operation_at_nest", nest_id |-> Some(t),
      args |-> <<"not_a_real_op", None>>, local |-> None],
     [op |-> "complete_operation_at_nest", nest_id |-> Some(num_nests + 1),
      args |-> <<>>, local |-> None],
     [op |-> "get_deck_summary", nest_id |-> None, args |-> <<>>, local |-> <<>>],
     [op |-> "export_state_to_dict", nest_id |-> None, args |-> <<>>, local |-> <<>>]}

EnterFair(t) ==
    /\ pc[t] = "idle"
    /\ calls + InFlight < budget
    /\ \E c \in FairCalls(t) : frame' = [frame EXCEPT ![t] = Some(c)]
    /\ goto(t, "acquire")
    /\ UNCHANGED <<deckvars, trace, budget, drivervars, visualizervars, lock_owner, lock_depth, returned>>

\* export_state_to_dict calls get_deck_summary, which takes the lock again
T_export_state_to_dict(t) ==
    /\ pc[t] = "export_state_to_dict"
    /\ RLock_acquire(t)
    /\ goto(t, "get_deck_summary")
    /\ UNCHANGED <<deckvars, trace, budget, drivervars, visualizervars, frame, returned>>

\* get_deck_summary returns to export_state_to_dict and leaves its `with`;
\* "timestamp" is datetime.now(); the dict is returned
T_export_nests(t) ==
    /\ pc[t] = "nests"
    /\ frame[t][1].op = "export_state_to_dict"
    /\ LET local == frame[t][1].local
       IN  Returns("export_state_to_dict", None, <<>>,
                   [deck_state |->
                       [deck_info |-> local[1],
                        active_operations |-> local[2],
                        nests_with_labware |-> local[3],
                        nests_with_tips |-> local[4],
                        nests |-> [i \in DOMAIN nests |-> Nest_get_summary(nests[i])]],
                    timestamp |-> isoformat(clock),
                    version |-> "1.0"])
    /\ RLock_release(t)
    /\ clock' = clock + 1
    /\ returns(t)
    /\ goto(t, "release")
    /\ UNCHANGED <<num_nests, nests, global_operation_count, error_count, last_error,
                   initialization_time, heap, held, budget, drivervars, visualizervars, frame>>

InitFair ==
    /\ DeckInit(NumThreads)
    /\ trace = <<[op |-> "__init__", nest_id |-> None, args |-> <<NumThreads>>,
                  ret |-> None]>>
    /\ budget = MaxFairCalls
    /\ NoDriver
    /\ NoVisualizer
    /\ lock_owner = None
    /\ lock_depth = 0
    /\ pc = [t \in Threads |-> "idle"]
    /\ frame = [t \in Threads |-> None]
    /\ returned = [t \in Threads |-> None]

\* a step of thread t inside a call it has made
Run(t) ==
    \/ Acquire(t)
    \/ Release(t)
    \/ T_complete_operation_at_nest(t)
    \/ T_start_operation_at_nest(t)
    \/ T_count_read(t)
    \/ T_count_write(t)
    \/ T_get_deck_summary(t)
    \/ T_nested_acquire(t)
    \/ T_nested_return(t)
    \/ T_nests(t)
    \/ T_export_state_to_dict(t)
    \/ T_export_nests(t)

NextFair ==
    \/ \E t \in Threads : EnterFair(t)
    \/ \E t \in Threads : Acquire(t)
    \/ \E t \in Threads : Release(t)
    \/ \E t \in Threads : T_complete_operation_at_nest(t)
    \/ \E t \in Threads : T_start_operation_at_nest(t)
    \/ \E t \in Threads : T_count_read(t)
    \/ \E t \in Threads : T_count_write(t)
    \/ \E t \in Threads : T_get_deck_summary(t)
    \/ \E t \in Threads : T_nested_acquire(t)
    \/ \E t \in Threads : T_nested_return(t)
    \/ \E t \in Threads : T_nests(t)
    \/ \E t \in Threads : T_export_state_to_dict(t)
    \/ \E t \in Threads : T_export_nests(t)

\* the scheduler runs every thread that can take a step
SpecFair == InitFair /\ [][NextFair]_vars /\ \A t \in Threads : WF_vars(Run(t))

----------------------------------------------------------------------------
\* BravoDeckVisualizerWithState.simulate_operation_with_state
\* (deck_visualizer/visualizer_server.py). The coroutine runs on the server's
\* event loop: `simulation` holds its arguments and the statement it is at.

\* op_mapping, with the enum members by their values
op_mapping ==
    [aspirate |-> "aspirating", dispense |-> "dispensing", mix |-> "mixing",
     wash |-> "washing", move |-> "moving", tips_on |-> "idle", tips_off |-> "idle"]

\* the label start_operation_at_nest is given: the operation's name
simulated_operation(operation) == operation

\* the coroutine is entered when none is running
simulation_idle == IF simulation = None THEN TRUE ELSE simulation[1].pc = "done"

Simulating == UNCHANGED <<budget, threadvars, drivervars, connection>>

\* up to the first deck call: the start of the operation, or the tip update
simulate_operation_with_state(operation, position, volume) ==
    /\ simulation_idle
    /\ calls < budget
    /\ Simulating
    /\ IF operation \in DOMAIN op_mapping /\ op_mapping[operation] /= "idle"
       THEN /\ start_operation_at_nest(position, simulated_operation(operation),
                   Some(Len(heap) + 1), Append(heap, [volume |-> volume]))
            /\ simulation' = Some([pc |-> IF operation \in {"aspirate", "dispense"}
                                          THEN "volume" ELSE "glow",
                                   operation |-> operation, position |-> position,
                                   volume |-> volume])
       ELSE /\ operation \in {"tips_on", "tips_off"}
            /\ IF operation = "tips_on"
               THEN update_tips_at_nest(position, TRUE, Some("standard"))
               ELSE update_tips_at_nest(position, FALSE, None)
            /\ simulation' = Some([pc |-> "glow", operation |-> operation,
                                   position |-> position, volume |-> volume])

\* `if operation == "aspirate": ... elif operation == "dispense": ...`
simulate_update_volume ==
    /\ simulation /= None
    /\ simulation[1].pc = "volume"
    /\ Simulating
    /\ IF simulation[1].operation = "aspirate"
       THEN update_volume_at_nest(simulation[1].position, simulation[1].volume, 0)
       ELSE update_volume_at_nest(simulation[1].position, 0, simulation[1].volume)
    /\ simulation' = Some([simulation[1] EXCEPT !.pc = "glow"])

\* the glow and the operation are broadcast, the deck update is sent, and the
\* coroutine sleeps 1.5 s: the deck is read and not changed
simulate_show_glow ==
    /\ simulation /= None
    /\ simulation[1].pc = "glow"
    /\ Simulating
    /\ simulation' = Some([simulation[1] EXCEPT !.pc = "complete"])
    /\ UNCHANGED <<deckvars, trace>>

\* `self.deck_state.complete_operation_at_nest(position)` and the last update
simulate_complete ==
    /\ simulation /= None
    /\ simulation[1].pc = "complete"
    /\ Simulating
    /\ complete_operation_at_nest(simulation[1].position)
    /\ simulation' = Some([simulation[1] EXCEPT !.pc = "done"])

\* the operations the web client's buttons send, and tips
SimulatedOperations == DOMAIN op_mapping
\* a nest, the last nest, and a position that is no nest
SimulatedPositions == {1, DefaultNumNests, DefaultNumNests + 1}
SimulatedVolumes == {0, 100}

SimulateOperationWithState ==
    \E operation \in SimulatedOperations, position \in SimulatedPositions,
       volume \in SimulatedVolumes :
        simulate_operation_with_state(operation, position, volume)

----------------------------------------------------------------------------
\* SpecVisualizer: the server runs simulated operations, one at a time, on the
\* deck of 9 nests it constructs

InitVisualizer ==
    /\ DeckInit(DefaultNumNests)
    /\ trace = <<[op |-> "__init__", nest_id |-> None, args |-> <<DefaultNumNests>>,
                  ret |-> None]>>
    /\ budget = MaxSimulationCalls
    /\ NoDriver
    /\ NoVisualizer
    /\ ThreadsIdle

NextVisualizer ==
    \/ SimulateOperationWithState
    \/ simulate_update_volume
    \/ simulate_show_glow
    \/ simulate_complete

SpecVisualizer == InitVisualizer /\ [][NextVisualizer]_vars

----------------------------------------------------------------------------
\* VisualizerMixin._connect_to_visualizer (visualizer_enhanced.py): the coroutine
\* the driver's background thread runs. `connection` holds its locals, the
\* statement it is at, and, as ghosts, whether a connection it had established
\* has been closed and how the coroutine ended. What websockets.connect and the
\* iteration over the websocket do is the library's and the server's choice.
\* The messages the loop receives change nothing and are left out.

max_retries == 10

Connecting == UNCHANGED <<deckvars, trace, budget, threadvars, drivervars, simulation>>

\* the coroutine is at statement `at`
connection_at(at) == IF connection = None THEN FALSE ELSE connection[1].pc = at

\* `break`, or the end of the coroutine
connection_ends(c, how) == Some([c EXCEPT !.pc = "done", !.ended = how])

\* websockets.connect raises ConnectionRefusedError or another OSError
connect_refused ==
    /\ connection_at("connect")
    /\ Connecting
    /\ LET c == [connection[1] EXCEPT !.retry_count = @ + 1]
       IN  connection' = IF c.retry_count < max_retries
                         THEN Some([c EXCEPT !.pc = "sleep"])
                         ELSE connection_ends(c, "gave up")

\* `await asyncio.sleep(2)`, then `while retry_count < max_retries:`
connect_retry ==
    /\ connection_at("sleep")
    /\ Connecting
    /\ connection' = IF connection[1].retry_count < max_retries
                     THEN Some([connection[1] EXCEPT !.pc = "connect"])
                     ELSE connection_ends(connection[1], "gave up")

\* websockets.connect raises an exception that is no OSError
connect_error ==
    /\ connection_at("connect")
    /\ Connecting
    /\ connection' = connection_ends(connection[1], "error")

\* `async with websockets.connect(...) as websocket: self._ws_client = websocket`
connect_established ==
    /\ connection_at("connect")
    /\ Connecting
    /\ connection' = Some([connection[1] EXCEPT !.pc = "sync", !._ws_client = TRUE])

\* `await self._sync_state_to_visualizer()`: it catches what sending raises; on a
\* host without a deck_state attribute `self.deck_state` raises AttributeError
\* before its try, which leaves the `async with` and is caught as Exception
sync_state_to_visualizer ==
    /\ connection_at("sync")
    /\ Connecting
    /\ \/ connection' = Some([connection[1] EXCEPT !.pc = "iterate"])
       \/ connection' = connection_ends([connection[1] EXCEPT !.closed = TRUE], "error")

\* `async for message in websocket` raises ConnectionClosed: `break`
connection_closed_raised ==
    /\ connection_at("iterate")
    /\ Connecting
    /\ connection' = connection_ends([connection[1] EXCEPT !.closed = TRUE], "closed")

\* `async for message in websocket` ends without raising, as the iterator does
\* after a normal closure: the `async with` is left and the `while` tests again
connection_closed_normally ==
    /\ connection_at("iterate")
    /\ Connecting
    /\ LET c == [connection[1] EXCEPT !.closed = TRUE]
       IN  connection' = IF c.retry_count < max_retries
                         THEN Some([c EXCEPT !.pc = "connect"])
                         ELSE connection_ends(c, "loop left")

----------------------------------------------------------------------------
\* SpecConnect: a driver constructed with with_visualizer=True, whose background
\* thread runs _connect_to_visualizer
InitConnect ==
    /\ \E simulation_mode \in BOOLEAN :
          /\ driver = BravoDriver(None, simulation_mode)
          /\ sdk = IF simulation_mode THEN <<>> ELSE <<<<"CreateControl">>>>
          /\ trace = <<[op |-> "__init__", nest_id |-> None,
                        args |-> <<simulation_mode>>, ret |-> None]>>
    /\ DeckInit(DefaultNumNests)
    /\ budget = 0
    /\ simulation = None
    /\ connection = Some([pc |-> "connect", retry_count |-> 0, _ws_client |-> FALSE,
                          closed |-> FALSE, ended |-> "no"])
    /\ ThreadsIdle

NextConnect ==
    \/ connect_refused
    \/ connect_retry
    \/ connect_error
    \/ connect_established
    \/ sync_state_to_visualizer
    \/ connection_closed_raised
    \/ connection_closed_normally

\* the event loop of the background thread keeps running the coroutine
SpecConnect == InitConnect /\ [][NextConnect]_vars /\ WF_vars(NextConnect)

----------------------------------------------------------------------------
\* The properties

\* a step that makes a call; call' is the call
Step == trace' /= trace
\* the call before the last one
previous == trace[Len(trace) - 1]

RecognizedLabels == {"aspirating", "Mixing", "idle"}
StatusOf(label) ==
    CASE label = "aspirating" -> "aspirating"
      [] label = "Mixing" -> "mixing"
      [] label = "idle" -> "idle"

\* the contents of the details a start_operation_at_nest call is given
Given(details) ==
    IF details = None THEN EmptyDict
    ELSE IF details[1] > Len(heap) THEN CallerDetails
    ELSE heap[details[1]]

PerNestOps ==
    {"get_nest", "set_labware_at_nest", "start_operation_at_nest",
     "complete_operation_at_nest", "update_volume_at_nest", "update_tips_at_nest",
     "log_error"}

\* c is a call of a per-nest operation with a nest_id outside [1, num_nests]
InvalidCall(c) ==
    /\ c.op \in PerNestOps
    /\ c.nest_id /= None
    /\ c.nest_id[1] \notin 1..num_nests

\* no thread is inside a call
AllReturned == \A t \in DOMAIN pc : pc[t] = "idle"

\* the start_operation_at_nest calls that returned true
SuccessfulStarts ==
    {k \in 1..Len(trace) : trace[k].op = "start_operation_at_nest" /\ trace[k].ret = TRUE}

\* C1: when threads call start_operation_at_nest concurrently, each on a distinct
\* valid nest with a recognized label, then after all calls have returned
\* global_operation_count has grown by exactly the number of calls: whenever no
\* call is in flight the counter equals the number of starts that returned true.
C1_ConcurrentStartsAllCounted ==
    AllReturned => global_operation_count = Cardinality(SuccessfulStarts)

\* every thread has started an operation on its own nest, and all have returned
C1_Witness ==
    /\ DOMAIN pc /= {}
    /\ AllReturned
    /\ \A t \in DOMAIN pc :
          /\ returned[t] /= None
          /\ returned[t][1].op = "start_operation_at_nest"
          /\ returned[t][1].nest_id = Some(t)
          /\ returned[t][1].ret = TRUE
    /\ global_operation_count = Cardinality(DOMAIN pc)

\* the counts of a deck summary agree with its own per-nest entries
SelfConsistent(summary) ==
    /\ summary.active_operations =
          Cardinality({i \in DOMAIN summary.nests :
                          summary.nests[i].operation_status /= "idle"})
    /\ summary.nests_with_labware =
          Cardinality({i \in DOMAIN summary.nests :
                          summary.nests[i].labware_type /= "empty"})
    /\ summary.nests_with_tips =
          Cardinality({i \in DOMAIN summary.nests : summary.nests[i].tips_loaded})

\* C2: every value get_deck_summary returns is self-consistent, also while other
\* threads call mutators: active_operations is the number of per-nest entries
\* whose status is not Idle, nests_with_labware the number whose labware type is
\* not Empty, nests_with_tips the number whose tips_loaded is true.
C2_SummarySelfConsistent ==
    \A k \in 1..Len(trace) :
        trace[k].op = "get_deck_summary" => SelfConsistent(trace[k].ret)

\* a summary with a non-zero count has been computed while another thread's
\* mutator call waits for the lock
C2_Witness ==
    \E t \in DOMAIN pc, u \in DOMAIN pc :
        /\ t /= u
        /\ pc[t] = "release"
        /\ frame[t][1].op = "get_deck_summary"
        /\ pc[u] = "acquire"
        /\ frame[u][1].op /= "get_deck_summary"
        /\ returned[t][1].ret.active_operations
             + returned[t][1].ret.nests_with_labware
             + returned[t][1].ret.nests_with_tips >= 1

\* C3: start_operation_at_nest with a valid nest_id and a label that parses returns
\* true, gives the nest the parsed status and the given details (an empty mapping
\* if none), progress 0 and a start_time, and adds exactly 1 to
\* global_operation_count.
C3_StartSucceeds ==
    [][(/\ Step
        /\ call'.op = "start_operation_at_nest"
        /\ call'.nest_id[1] \in 1..num_nests
        /\ call'.args[1] \in RecognizedLabels)
       => LET oi == nests'[call'.nest_id[1]].operation_info
          IN  /\ call'.ret = TRUE
              /\ oi.status = StatusOf(call'.args[1])
              /\ heap'[oi.operation_details] = Given(call'.args[2])
              /\ oi.progress = 0
              /\ oi.start_time /= None
              /\ global_operation_count' = global_operation_count + 1]_vars

\* a start with details on a nest whose earlier operation was completed
C3_Witness ==
    /\ calls >= 3
    /\ call.op = "start_operation_at_nest"
    /\ call.ret = TRUE
    /\ call.args[2] /= None
    /\ previous.op = "complete_operation_at_nest"
    /\ previous.nest_id = call.nest_id
    /\ heap[nests[call.nest_id[1]].operation_info.operation_details] = CallerDetails

\* C4: start_operation_at_nest with a valid nest_id and a label that does not parse
\* returns false and changes no counter and no field of any nest.
C4_UnknownLabelChangesNothing ==
    [][(/\ Step
        /\ call'.op = "start_operation_at_nest"
        /\ call'.nest_id[1] \in 1..num_nests
        /\ call'.args[1] \notin RecognizedLabels)
       => /\ call'.ret = FALSE
          /\ UNCHANGED <<nests, heap, global_operation_count, error_count,
                         last_error>>]_vars

\* an unknown label on a nest that has an operation in progress
C4_Witness ==
    /\ call.op = "start_operation_at_nest"
    /\ call.args[1] = "not_a_real_op"
    /\ call.nest_id[1] \in 1..num_nests
    /\ call.ret = FALSE
    /\ nests[call.nest_id[1]].operation_info.status = "aspirating"
    /\ global_operation_count = 1

\* the invalid-reference outcome of a call: None for get_nest and log_error (which
\* returns nothing), false for the others
InvalidOutcome(c) ==
    IF c.op \in {"get_nest", "log_error"} THEN c.ret = None ELSE c.ret = FALSE

\* C5 as claimed: every per-nest operation called with a nest_id outside
\* [1, num_nests], log_error included, gives the invalid-reference outcome and
\* leaves global_operation_count, error_count and last_error unchanged.
C5_InvalidIdKeepsCounters_Original ==
    [][(Step /\ InvalidCall(call'))
       => /\ InvalidOutcome(call')
          /\ UNCHANGED <<global_operation_count, error_count, last_error>>]_vars

\* C5 amended: so for every per-nest operation but log_error; log_error with such
\* a nest_id leaves global_operation_count unchanged, adds 1 to error_count and
\* sets last_error to its message.
C5_InvalidIdKeepsCounters ==
    [][(Step /\ InvalidCall(call'))
       => /\ InvalidOutcome(call')
          /\ global_operation_count' = global_operation_count
          /\ IF call'.op = "log_error"
             THEN /\ error_count' = error_count + 1
                  /\ last_error' = Some(call'.args[1])
             ELSE UNCHANGED <<error_count, last_error>>]_vars

\* an invalid-id mutator call after an operation was started
C5_Witness ==
    /\ InvalidCall(call)
    /\ call.op = "complete_operation_at_nest"
    /\ call.nest_id = Some(0)
    /\ global_operation_count = 1

\* C6: a call of a mutator with an invalid nest_id, mixed in any order with valid
\* calls, changes no field of any nest, and get_deck_summary still answers.
C6_InvalidIdChangesNoNest ==
    [][(Step /\ InvalidCall(call') /\ call'.op /= "get_nest")
       => /\ nests' = nests
          /\ heap' = heap
          /\ LET summary == get_deck_summary'
             IN  /\ DOMAIN summary.nests = 1..num_nests
                 /\ summary.active_operations \in 0..num_nests]_vars

\* log_error with an id above num_nests, after a valid call changed a nest
C6_Witness ==
    /\ calls >= 2
    /\ call.op = "log_error"
    /\ InvalidCall(call)
    /\ call.nest_id[1] > num_nests
    /\ previous.op = "update_volume_at_nest"
    /\ previous.ret = TRUE

\* the sum of argument k of the successful update_volume_at_nest calls on nest i
\* among the first m calls of the trace, since the last reset_all_nests
RECURSIVE SumOfUpdates(_, _, _)
SumOfUpdates(i, k, m) ==
    IF m = 0 \/ trace[m].op = "reset_all_nests" THEN 0
    ELSE SumOfUpdates(i, k, m - 1)
         + (IF trace[m].op = "update_volume_at_nest" /\ trace[m].nest_id = Some(i)
            THEN trace[m].args[k] ELSE 0)

\* C7: for every nest, current_volume is the sum of the aspirated arguments minus
\* the sum of the dispensed arguments of the update_volume_at_nest calls on it
\* since construction or the last reset, total_aspirated and total_dispensed are
\* these two sums, and nothing is clamped.
C7_VolumeAccounting ==
    \A i \in DOMAIN nests :
        LET v == nests[i].volume_info
            aspirated == SumOfUpdates(i, 1, Len(trace))
            dispensed == SumOfUpdates(i, 2, Len(trace))
        IN  /\ v.current_volume = aspirated - dispensed
            /\ v.total_aspirated = aspirated
            /\ v.total_dispensed = dispensed

\* more dispensed than aspirated, over several updates after a reset
C7_Witness ==
    \E i \in DOMAIN nests, m \in 2..(Len(trace) - 2) :
        /\ trace[m].op = "reset_all_nests"
        /\ trace[m - 1].op = "update_volume_at_nest"
        /\ trace[Len(trace) - 1].op = "update_volume_at_nest"
        /\ trace[Len(trace) - 1].nest_id = Some(i)
        /\ call.op = "update_volume_at_nest"
        /\ call.nest_id = Some(i)
        /\ nests[i].volume_info.total_aspirated > 0
        /\ nests[i].volume_info.current_volume < 0

\* C8: complete_operation_at_nest returns true on a valid nest whatever its status
\* and leaves it Idle with empty details, no start_time and progress 100; it
\* returns false only for an invalid nest_id; it never changes
\* global_operation_count or error_count.
C8_CompleteOperation ==
    [][(Step /\ call'.op = "complete_operation_at_nest")
       => LET n == call'.nest_id[1]
          IN  /\ call'.ret = (n \in 1..num_nests)
              /\ n \in 1..num_nests =>
                    LET oi == nests'[n].operation_info
                    IN  /\ oi.status = "idle"
                        /\ heap'[oi.operation_details] = EmptyDict
                        /\ oi.start_time = None
                        /\ oi.progress = 100
              /\ UNCHANGED <<global_operation_count, error_count>>]_vars

\* a nest completed right after log_error put it in Error during an operation
C8_Witness ==
    /\ calls >= 3
    /\ call.op = "complete_operation_at_nest"
    /\ call.ret = TRUE
    /\ previous.op = "log_error"
    /\ previous.nest_id = call.nest_id
    /\ trace[Len(trace) - 2].op = "start_operation_at_nest"
    /\ trace[Len(trace) - 2].nest_id = call.nest_id
    /\ trace[Len(trace) - 2].ret = TRUE

\* C9: a second complete_operation_at_nest in a row on the same valid nest returns
\* true and leaves the nest's operation info, volume info, tip info and labware
\* and the deck counters as the first call left them.
C9_CompleteIdempotent ==
    [][(/\ Step
        /\ call.op = "complete_operation_at_nest"
        /\ call.ret = TRUE
        /\ call'.op = "complete_operation_at_nest"
        /\ call'.nest_id = call.nest_id)
       => LET n == call.nest_id[1]
          IN  /\ call'.ret = TRUE
              /\ nests'[n].operation_info = nests[n].operation_info
              /\ nests'[n].operation_info.status = "idle"
              /\ heap' = heap
              /\ nests'[n].volume_info = nests[n].volume_info
              /\ nests'[n].tip_info = nests[n].tip_info
              /\ nests'[n].labware_type = nests[n].labware_type
              /\ nests'[n].labware_name = nests[n].labware_name
              /\ UNCHANGED <<global_operation_count, error_count, last_error>>]_vars

\* start, complete, complete on one nest
C9_Witness ==
    /\ calls >= 3
    /\ call.op = "complete_operation_at_nest"
    /\ call.ret = TRUE
    /\ previous.op = "complete_operation_at_nest"
    /\ previous.nest_id = call.nest_id
    /\ trace[Len(trace) - 2].op = "start_operation_at_nest"
    /\ trace[Len(trace) - 2].nest_id = call.nest_id
    /\ trace[Len(trace) - 2].ret = TRUE
    /\ trace[Len(trace) - 2].args[1] = "aspirating"

\* C10: after reset_all_nests every nest has labware_type Empty, no labware_name,
\* tips_loaded false, all volume fields 0, status Idle, empty details and empty
\* custom_properties; the three counters are 0 / absent; initialization_time,
\* num_nests and every nest_id are unchanged.
C10_ResetAllNests ==
    [][(Step /\ call'.op = "reset_all_nests")
       => /\ \A i \in DOMAIN nests' :
                LET nest == nests'[i]
                IN  /\ nest.labware_type = "empty"
                    /\ nest.labware_name = None
                    /\ nest.tip_info.tips_loaded = FALSE
                    /\ \A f \in DOMAIN nest.volume_info : nest.volume_info[f] = 0
                    /\ nest.operation_info.status = "idle"
                    /\ heap'[nest.operation_info.operation_details] = EmptyDict
                    /\ nest.custom_properties = EmptyDict
                    /\ nest.nest_id = i
          /\ global_operation_count' = 0
          /\ error_count' = 0
          /\ last_error' = None
          /\ initialization_time' = initialization_time
          /\ num_nests' = num_nests
          /\ DOMAIN nests' = 1..num_nests]_vars

\* a reset right after tips were loaded on a nest
C10_Witness ==
    /\ calls >= 2
    /\ call.op = "reset_all_nests"
    /\ previous.op = "update_tips_at_nest"
    /\ previous.ret = TRUE
    /\ \A i \in DOMAIN nests : ~nests[i].tip_info.tips_loaded

\* C11 as stated: global_operation_count is never decremented: across every step
\* its value after the step is greater than or equal to its value before.
C11_CountNeverDecreases_Original ==
    [][global_operation_count' >= global_operation_count]_vars

\* C11: global_operation_count is never decremented by any operation other than
\* reset_all_nests: across every other step its value after the step is greater
\* than or equal to its value before; reset_all_nests sets it to 0.
C11_CountDecreasesOnlyOnReset ==
    [][Step =>
         IF call'.op = "reset_all_nests"
         THEN global_operation_count' = 0
         ELSE global_operation_count' >= global_operation_count]_vars

\* an operation that was counted is completed, and the count stays
C11_Witness ==
    /\ calls >= 2
    /\ call.op = "complete_operation_at_nest"
    /\ call.ret = TRUE
    /\ previous.op = "start_operation_at_nest"
    /\ previous.nest_id = call.nest_id
    /\ global_operation_count = 1

\* what nest i holds, its operation_details by content, given the nests and the heap
NestState(ns, h, i) ==
    [fields |-> ns[i], operation_details |-> h[ns[i].operation_info.operation_details]]

\* the nest a log_error call pins the error on, if any
Pinned(c) == c.nest_id /= None /\ c.nest_id[1] \in 1..num_nests

\* C12: log_error(message, nest_id?) increments error_count by exactly 1 and sets
\* last_error to message on every call; when nest_id is given and valid it also
\* sets that nest's status to Error and operation_details["error"] to message; it
\* never changes global_operation_count, and it changes no other nest.
C12_LogError ==
    [][(Step /\ call'.op = "log_error")
       => /\ error_count' = error_count + 1
          /\ last_error' = Some(call'.args[1])
          /\ global_operation_count' = global_operation_count
          /\ Pinned(call') =>
                LET after == NestState(nests', heap', call'.nest_id[1])
                IN  /\ after.fields.operation_info.status = "error"
                    /\ "error" \in DOMAIN after.operation_details
                    /\ after.operation_details["error"] = call'.args[1]
          /\ \A i \in DOMAIN nests :
                (Pinned(call') /\ i = call'.nest_id[1])
                \/ NestState(nests', heap', i) = NestState(nests, heap, i)]_vars

\* the call c completes the operation of nest i or resets the nests
CompletesOrResets(c, i) ==
    \/ c.op = "reset_all_nests"
    \/ c.op = "complete_operation_at_nest" /\ c.nest_id = Some(i)

\* the call c has started an operation on nest i
Starts(c, i) ==
    c.op = "start_operation_at_nest" /\ c.nest_id = Some(i) /\ c.ret = TRUE

\* C13 as stated: a nest in Error status stays in Error until
\* complete_operation_at_nest on it or a reset is executed: no other operation
\* takes the nest out of Error.
C13_ErrorUntilCompleteOrReset_Original ==
    [][\A i \in DOMAIN nests :
         (/\ Step
          /\ nests[i].operation_info.status = "error"
          /\ ~CompletesOrResets(call', i))
         => nests'[i].operation_info.status = "error"]_vars

\* C13: a nest in Error status stays in Error until complete_operation_at_nest on
\* it, a reset, or a start_operation_at_nest on it that returns true (which
\* replaces the status by the started one) is executed: no other operation takes
\* the nest out of Error.
C13_ErrorUntilCompleteResetOrStart ==
    [][\A i \in DOMAIN nests :
         (/\ Step
          /\ nests[i].operation_info.status = "error"
          /\ ~CompletesOrResets(call', i)
          /\ ~Starts(call', i))
         => nests'[i].operation_info.status = "error"]_vars

\* new labware is set on a nest that log_error left in Error: it stays in Error
C13_Witness ==
    /\ calls >= 2
    /\ previous.op = "log_error"
    /\ call.op = "set_labware_at_nest"
    /\ call.nest_id = previous.nest_id
    /\ call.ret = TRUE
    /\ nests[call.nest_id[1]].operation_info.status = "error"

\* C14: in every reachable state and for every nest, start_time is present if and
\* only if the nest's operation status is not Idle.
C14_StartTimeIffNotIdle ==
    \A i \in DOMAIN nests :
        (nests[i].operation_info.start_time /= None)
            <=> (nests[i].operation_info.status /= "idle")

\* the call c is one of the DeckState calls that mutate nest i
Mutates(c, i) ==
    \/ /\ c.op \in {"set_labware_at_nest", "start_operation_at_nest",
                    "complete_operation_at_nest", "update_volume_at_nest",
                    "update_tips_at_nest"}
       /\ c.nest_id = Some(i)
       /\ c.ret = TRUE
    \/ c.op = "reset_all_nests"
    \/ c.op = "log_error" /\ c.nest_id = Some(i)

\* C15: every DeckState call that mutates a nest (set_labware_at_nest,
\* start_operation_at_nest, complete_operation_at_nest, update_volume_at_nest,
\* update_tips_at_nest, reset_all_nests, and log_error with a valid nest_id)
\* updates that nest's last_accessed; no field of a nest changes in a DeckState
\* call while its last_accessed stays the same.
C15_LastAccessedOnEveryMutation ==
    [][\A i \in DOMAIN nests :
         (Step /\ call'.op /= "custom_properties")
         => /\ Mutates(call', i) => nests'[i].last_accessed /= nests[i].last_accessed
            /\ nests'[i].last_accessed = nests[i].last_accessed
                  => NestState(nests', heap', i) = NestState(nests, heap, i)]_vars

\* the num_nests the deck was constructed with
ConstructedWith == IF trace[1].args = <<>> THEN DefaultNumNests ELSE trace[1].args[1]

\* C16: a newly constructed deck has exactly num_nests nests (default 9), and for
\* every nest_id in [1, num_nests] get_nest(nest_id) returns a nest with that
\* nest_id, labware_type Empty and status Idle; in every state reachable afterwards
\* the set of nest ids is still exactly 1..num_nests and get_nest(i).nest_id = i.
C16_NestIdsFixed ==
    /\ num_nests = ConstructedWith
    /\ DOMAIN nests = 1..num_nests
    /\ \A i \in 1..num_nests :
          /\ get_nest(i) /= None
          /\ nests[get_nest(i)[1]].nest_id = i
          /\ calls = 0 => /\ nests[get_nest(i)[1]].labware_type = "empty"
                          /\ nests[get_nest(i)[1]].operation_info.status = "idle"

\* the default deck of 9 nests after an operation was started and the deck reset
C16_Witness ==
    /\ trace[1].args = <<>>
    /\ Cardinality(DOMAIN nests) = 9
    /\ calls >= 2
    /\ call.op = "reset_all_nests"
    /\ previous.op = "start_operation_at_nest"
    /\ previous.nest_id = Some(9)

\* the LabwareType whose value equals the label but for case, or Unknown
LabwareOf(label) ==
    CASE label = "TIP_RACK" -> "tip_rack"
      [] label = "microplate_96" -> "microplate_96"
      [] OTHER -> "unknown"

\* C17: set_labware_at_nest(n, label, name) with a valid n returns true and leaves
\* nest n with labware_type equal to the LabwareType whose value equals label
\* compared case-insensitively, or Unknown when no LabwareType matches, and with
\* labware_name equal to name; it changes no counter and no operation, volume or
\* tip field.
C17_SetLabware ==
    [][(/\ Step
        /\ call'.op = "set_labware_at_nest"
        /\ call'.nest_id[1] \in 1..num_nests)
       => LET n == call'.nest_id[1]
          IN  /\ call'.ret = TRUE
              /\ nests'[n].labware_type = LabwareOf(call'.args[1])
              /\ nests'[n].labware_name = call'.args[2]
              /\ UNCHANGED <<global_operation_count, error_count, last_error, heap>>
              /\ nests'[n].operation_info = nests[n].operation_info
              /\ nests'[n].volume_info = nests[n].volume_info
              /\ nests'[n].tip_info = nests[n].tip_info]_vars

\* an upper-case label is set on a nest that has an operation, tips and volume
C17_Witness ==
    /\ call.op = "set_labware_at_nest"
    /\ call.args[1] = "TIP_RACK"
    /\ call.ret = TRUE
    /\ nests[call.nest_id[1]].labware_type = "tip_rack"
    /\ nests[call.nest_id[1]].labware_name = Some("Tips")
    /\ \/ nests[call.nest_id[1]].operation_info.status = "aspirating"
       \/ nests[call.nest_id[1]].tip_info.tips_loaded
       \/ nests[call.nest_id[1]].volume_info.total_aspirated > 0

\* C18: get_active_operations returns exactly one entry for each nest whose status
\* is not Idle (nests in Error status included) and no entry for an Idle nest, in
\* ascending nest_id order, each entry carrying that nest's current status,
\* details, progress and start_time.
C18_ActiveOperations ==
    [][(Step /\ call'.op = "get_active_operations")
       => LET r == call'.ret
          IN  /\ \A i \in DOMAIN nests :
                    Cardinality({k \in DOMAIN r : r[k].nest_id = i})
                      = IF nests[i].operation_info.status /= "idle" THEN 1 ELSE 0
              /\ \A k \in DOMAIN r, l \in DOMAIN r : k < l => r[k].nest_id < r[l].nest_id
              /\ \A k \in DOMAIN r :
                    /\ r[k].nest_id \in DOMAIN nests
                    /\ LET oi == nests[r[k].nest_id].operation_info
                       IN  /\ r[k].operation = oi.status
                           /\ heap[r[k].details] = heap[oi.operation_details]
                           /\ r[k].progress = oi.progress
                           /\ r[k].start_time = oi.start_time]_vars

\* two nests are listed, one of them in Error status
C18_Witness ==
    /\ call.op = "get_active_operations"
    /\ Cardinality(DOMAIN call.ret) = 2
    /\ \E k \in DOMAIN call.ret : call.ret[k].operation = "error"
    /\ \E k \in DOMAIN call.ret : call.ret[k].operation = "aspirating"

\* C19: the value returned by get_active_operations is a snapshot: after it has
\* been returned, no later DeckState operation changes the contents of that
\* returned value, in particular the details mapping of any of its entries.
C19_ActiveOperationsSnapshot ==
    [][\A k \in 1..Len(trace) :
         trace[k].op = "get_active_operations"
         => \A e \in DOMAIN trace[k].ret :
               heap'[trace[k].ret[e].details] = heap[trace[k].ret[e].details]]_vars

\* the thread is part-way through a mutation of nest n
PartWay(t, n) == pc[t] = "update_volume_current" /\ frame[t][1].nest_id = Some(n)

\* the thread reads the fields of nest n
Reads(t, n) == pc[t] = "read_nest" /\ frame[t][1].nest_id = Some(n)

\* C20: every read and every write of deck state goes through the single lock:
\* each public DeckState operation, get_nest included, executes entirely while the
\* calling thread holds the lock, so no thread reads a nest's fields while another
\* thread is part-way through a mutation of that nest. Stated by what it rules
\* out: a thread reading the fields of a nest that another thread is part-way
\* through mutating.
C20_NoReadDuringMutation ==
    \A t \in DOMAIN pc, u \in DOMAIN pc, n \in DOMAIN nests :
        ~(Reads(t, n) /\ PartWay(u, n))

\* C21: no DeckState operation blocks indefinitely: under fair scheduling every
\* call by every thread eventually returns, the nested lock acquisitions inside
\* get_deck_summary and export_state_to_dict never self-deadlock, and when any
\* call returns, on every path including the false-return and unknown-label
\* paths, the calling thread no longer holds the lock.
C21_EveryCallReturns ==
    /\ \A t \in Threads : (pc[t] /= "idle") ~> (pc[t] = "idle")
    /\ [](\A t \in Threads : pc[t] = "idle" => lock_owner /= Some(t))

\* an export has returned after a start with an unknown label returned false, and
\* the lock is free
C21_Witness ==
    /\ AllReturned
    /\ lock_owner = None
    /\ lock_depth = 0
    /\ calls >= 2
    /\ \E t \in DOMAIN pc :
          /\ returned[t] /= None
          /\ returned[t][1].op = "export_state_to_dict"
    /\ \E k \in 1..Len(trace) :
          /\ trace[k].op = "start_operation_at_nest"
          /\ trace[k].ret = FALSE


ReadOps ==
    {"export_state_to_dict", "get_deck_summary", "get_active_operations",
     "get_nests_with_labware", "get_nests_with_tips", "find_empty_nests",
     "find_nests_by_labware_type", "get_nest"}

\* C22: the read operations export_state_to_dict, get_deck_summary,
\* get_active_operations, get_nests_with_labware, get_nests_with_tips,
\* find_empty_nests, find_nests_by_labware_type and get_nest leave the whole deck
\* state unchanged: every nest field (last_accessed included), every details
\* mapping and every counter is the same after the call as before.
C22_ReadsChangeNothing ==
    [][(Step /\ call'.op \in ReadOps) =>
           /\ nests' = nests
           /\ heap' = heap
           /\ num_nests' = num_nests
           /\ global_operation_count' = global_operation_count
           /\ error_count' = error_count
           /\ last_error' = last_error
           /\ initialization_time' = initialization_time]_vars

\* every read operation has been called on a deck that holds labware, tips, an
\* active operation or an error
C22_Witness ==
    /\ calls = MaxReadCalls
    /\ call.op \in ReadOps
    /\ previous.op \in ReadOps
    /\ previous.op /= call.op
    /\ \E i \in DOMAIN nests : nests[i].last_accessed /= None


\* the ids of a list
Ids(list) == {list[k] : k \in DOMAIN list}

\* C23: find_nests_by_labware_type(label) returns exactly the ids of the nests
\* whose labware_type equals the parsed label (each id once, in key order), and
\* when the label does not parse into LabwareType it returns the empty list and
\* changes neither error_count, last_error nor any nest.
C23_FindNestsByLabwareType ==
    [][(Step /\ call'.op = "find_nests_by_labware_type") =>
           LET label == Lower(call'.args[1])
               found == call'.ret
           IN  IF label \in LabwareTypeValues
               THEN /\ Ids(found) = {i \in 1..num_nests : nests[i].labware_type = label}
                    /\ \A j, k \in DOMAIN found : j < k => found[j] < found[k]
               ELSE /\ found = <<>>
                    /\ error_count' = error_count
                    /\ last_error' = last_error
                    /\ nests' = nests
                    /\ heap' = heap]_vars

\* a label that does not parse is looked for on a deck that holds a tip rack and
\* a nest of Unknown labware
C23_Witness ==
    /\ calls = MaxReadCalls
    /\ call.op = "find_nests_by_labware_type"
    /\ call.args = <<"not_a_labware">>
    /\ call.ret = <<>>
    /\ \E i \in DOMAIN nests : nests[i].labware_type = "unknown"
    /\ \E i \in DOMAIN nests : nests[i].labware_type = "tip_rack"


\* C24: update_tips_at_nest(n, tips_on, tip_type) on a valid n sets tips_loaded to
\* tips_on and last_tip_operation to tips_on/tips_off accordingly, and tip_type
\* is sticky: it is replaced only when a non-empty tip_type is supplied, so a
\* tips_off call (or any call without tip_type) keeps the previous tip_type,
\* which is cleared only by a reset.
C24_UpdateTips ==
    [][Step =>
         \A i \in 1..num_nests :
           LET c == call'
               before == nests[i].tip_info
               after == nests'[i].tip_info
               on_i == c.op = "update_tips_at_nest" /\ c.nest_id = Some(i)
               supplied == c.args[2] /= None /\ c.args[2] /= Some("")
           IN  /\ on_i =>
                     /\ c.ret = TRUE
                     /\ after.tips_loaded = c.args[1]
                     /\ after.last_tip_operation =
                            Some(IF c.args[1] THEN "tips_on" ELSE "tips_off")
                     /\ after.tip_type = IF supplied THEN c.args[2] ELSE before.tip_type
               /\ after.tip_type /= before.tip_type =>
                     \/ on_i /\ supplied
                     \/ c.op = "reset_all_nests" /\ after.tip_type = None]_vars

\* tips of a type were put on a nest, then taken off without a type: the nest
\* still has the type
C24_Witness ==
    /\ calls >= 2
    /\ call.op = "update_tips_at_nest"
    /\ call.nest_id = Some(1)
    /\ call.args[1] = FALSE
    /\ call.args[2] \in {None, Some("")}
    /\ previous.op = "update_tips_at_nest"
    /\ previous.nest_id = Some(1)
    /\ previous.args = <<TRUE, Some("filtered")>>
    /\ nests[1].tip_info.tip_type = Some("filtered")
    /\ nests[1].tip_info.tips_loaded = FALSE
    /\ nests[1].tip_info.last_tip_operation = Some("tips_off")


\* the calls of the trace after construction are the given ones, in order
Ran(scenario) ==
    /\ calls = Len(scenario)
    /\ \A k \in 1..Len(scenario) :
          /\ trace[k + 1].op = scenario[k][1]
          /\ trace[k + 1].nest_id = Some(scenario[k][2])
          /\ scenario[k][1] = "start_operation_at_nest" =>
                trace[k + 1].args[1] = scenario[k][3]
          /\ scenario[k][1] = "update_volume_at_nest" =>
                trace[k + 1].args = scenario[k][3]

\* aspirating 100 at nest 2, then dispensing 100 at nest 3
Scenario ==
    <<<<"start_operation_at_nest", 2, "aspirating">>,
      <<"update_volume_at_nest", 2, <<100, 0>>>>,
      <<"complete_operation_at_nest", 2, <<>>>>,
      <<"start_operation_at_nest", 3, "dispensing">>,
      <<"update_volume_at_nest", 3, <<0, 100>>>>,
      <<"complete_operation_at_nest", 3, <<>>>>>>

\* C25: running the cycle start_operation_at_nest, update_volume_at_nest,
\* complete_operation_at_nest on one nest after another on a new 9-nest deck
\* (aspirating 100 at nest 2, then dispensing 100 at nest 3) ends with nest 2
\* current_volume = 100, nest 3 current_volume = -100, global_operation_count
\* equal to the number of cycles (2) and get_deck_summary().active_operations = 0;
\* in general, after every cycle the count is the number of cycles and no
\* operation is active, and each nest's volume is the sum of its own updates.
C25_Cycles ==
    /\ num_nests = DefaultNumNests
    /\ Ran(Scenario) =>
          /\ nests[2].volume_info.current_volume = 100
          /\ nests[3].volume_info.current_volume = 0 - 100
          /\ global_operation_count = 2
          /\ get_deck_summary.active_operations = 0
    /\ call.op = "complete_operation_at_nest" =>
          /\ global_operation_count * 3 = calls
          /\ get_deck_summary.active_operations = 0
    /\ \A i \in DOMAIN nests :
          nests[i].volume_info.current_volume =
              SumOfUpdates(i, 1, Len(trace)) - SumOfUpdates(i, 2, Len(trace))

\* the scenario has run
C25_Witness ==
    /\ Ran(Scenario)
    /\ nests[2].volume_info.current_volume = 100
    /\ nests[3].volume_info.current_volume = 0 - 100
    /\ global_operation_count = 2


\* the device commands of the driver that the model has
DriverCommands ==
    {"aspirate", "dispense", "move_to_location", "get_firmware_version", "home_w",
     "show_labware_editor"}

\* the call raised BravoCommandError with a message that contains the text
RaisedCommandError(c, text) ==
    /\ c.ret.raises = Some("BravoCommandError")
    /\ Mentions(c.ret.message, text)

\* C26: every driver command invoked while is_connected() is false raises
\* BravoCommandError 'Device not connected' and has no effect on the driver or
\* the device, in hardware mode and in simulation mode, before any connect and
\* after a disconnect.
C26_NotConnectedRaises ==
    [][(Step /\ call'.op \in DriverCommands /\ ~is_connected(driver)) =>
           /\ RaisedCommandError(call', "Device not connected")
           /\ driver' = driver
           /\ sdk' = sdk]_vars

\* C27: a newly constructed driver reports is_connected() false; connect()
\* returns True and afterwards is_connected() is true; disconnect() on a
\* connected driver makes is_connected() false; in any sequence of calls.
C27_ConnectionLifecycle ==
    /\ ~is_connected(driver)
    /\ [][Step =>
            /\ call'.op = "connect" =>
                  /\ call'.ret = Return(Some(TRUE))
                  /\ is_connected(driver')
            /\ (call'.op = "disconnect" /\ is_connected(driver)) =>
                  ~is_connected(driver')]_vars

\* C28: on a connected driver, aspirate and dispense called with a volume that is
\* zero or negative raise BravoCommandError 'Volume must be positive' and perform
\* no operation.
C28_VolumeMustBePositive ==
    [][(Step /\ call'.op \in {"aspirate", "dispense"} /\ is_connected(driver)
             /\ call'.args[1] <= 0) =>
           /\ RaisedCommandError(call', "Volume must be positive")
           /\ driver' = driver
           /\ sdk' = sdk]_vars


\* the complete_operation_at_nest calls of the trace that returned true
Completions ==
    {k \in 1..Len(trace) : trace[k].op = "complete_operation_at_nest" /\ trace[k].ret = TRUE}

\* C29: start_operation_at_nest on a nest that already has an active (non-Idle)
\* operation is not rejected: with a label that parses it returns true, replaces
\* the nest's status and details by the new ones, sets progress to 0 and
\* start_time to the time of the new start, and adds 1 to
\* global_operation_count.
C29_StartOverwritesActive ==
    [][(/\ Step
        /\ call'.op = "start_operation_at_nest"
        /\ call'.nest_id[1] \in 1..num_nests
        /\ call'.args[1] \in RecognizedLabels
        /\ nests[call'.nest_id[1]].operation_info.status /= "idle")
       => LET before == nests[call'.nest_id[1]].operation_info
              after == nests'[call'.nest_id[1]].operation_info
          IN  /\ call'.ret = TRUE
              /\ after.status = StatusOf(call'.args[1])
              /\ heap'[after.operation_details] = Given(call'.args[2])
              /\ after.progress = 0
              /\ after.start_time /= None
              /\ after.start_time[1] >= clock
              /\ before.start_time /= None => after.start_time[1] > before.start_time[1]
              /\ global_operation_count' = global_operation_count + 1]_vars

\* two operations started one after the other on the same nest, none completed:
\* the count is 2, above the number of completed operations
C29_Witness ==
    /\ calls = 2
    /\ call.op = "start_operation_at_nest"
    /\ call.ret = TRUE
    /\ call.args[1] = "Mixing"
    /\ previous.op = "start_operation_at_nest"
    /\ previous.ret = TRUE
    /\ previous.args[1] = "aspirating"
    /\ previous.nest_id = call.nest_id
    /\ nests[call.nest_id[1]].operation_info.status = "mixing"
    /\ global_operation_count = 2
    /\ global_operation_count > Cardinality(Completions)


\* C30: whenever start_operation_at_nest(n, label, details) returns true, nest n
\* has a non-Idle status immediately after the call and is listed by
\* get_active_operations, so that global_operation_count counts only operations
\* that were active.
C30_StartedIsActive ==
    (call.op = "start_operation_at_nest" /\ call.ret = TRUE) =>
        /\ nests[call.nest_id[1]].operation_info.status /= "idle"
        /\ \E k \in DOMAIN get_active_operations :
              get_active_operations[k].nest_id = call.nest_id[1]


\* C31: the details mapping a caller passes to start_operation_at_nest is never
\* modified by the deck: after the start, and after any later
\* complete_operation_at_nest, log_error or reset_all_nests on that nest, every
\* mapping the caller passed still holds exactly the keys and values it was
\* passed with.
C31_CallerDetailsUntouched ==
    \A r \in held : heap[r] = CallerDetails


PerNestMutators ==
    {"set_labware_at_nest", "start_operation_at_nest", "complete_operation_at_nest",
     "update_volume_at_nest", "update_tips_at_nest", "log_error"}

\* C32: each of set_labware_at_nest, start_operation_at_nest,
\* complete_operation_at_nest, update_volume_at_nest, update_tips_at_nest and
\* log_error applied to nest n leaves every field of every other nest unchanged
\* (its operation_details by content), and of the deck counters changes at most
\* the one it is documented to change: global_operation_count for a start, the
\* error record for log_error, none for the others.
C32_PerNestIsolation ==
    [][(Step /\ call'.op \in PerNestMutators /\ call'.nest_id /= None)
       => /\ \A i \in DOMAIN nests :
                i /= call'.nest_id[1] =>
                    NestState(nests', heap', i) = NestState(nests, heap, i)
          /\ call'.op /= "start_operation_at_nest" =>
                global_operation_count' = global_operation_count
          /\ call'.op /= "log_error" =>
                (error_count' = error_count /\ last_error' = last_error)]_vars


\* C33: in every reachable state the nest ids returned by find_empty_nests and
\* the nest ids of get_nests_with_labware are disjoint and together are exactly
\* 1..num_nests (a nest set to Unknown counts as having labware), and
\* find_nests_by_labware_type("empty") returns the same list as find_empty_nests.
C33_EmptyOrWithLabware ==
    LET empty == Ids(find_empty_nests)
        loaded == {get_nests_with_labware[k].nest_id : k \in DOMAIN get_nests_with_labware}
    IN  /\ empty \cap loaded = {}
        /\ empty \cup loaded = 1..num_nests
        /\ find_nests_by_labware_type("empty") = find_empty_nests

\* a deck with an empty nest and a nest of Unknown labware
C33_Witness ==
    /\ \E i \in DOMAIN nests : nests[i].labware_type = "unknown"
    /\ find_empty_nests /= <<>>
    /\ Len(get_nests_with_labware) >= 1
    /\ call.op \in {"find_empty_nests", "get_nests_with_labware"}


\* C34: after each update_volume_at_nest(n, aspirated, dispensed) on a valid n,
\* last_operation_volume is the larger of that call's aspirated and dispensed
\* arguments, whatever it was before, and both deltas of the call are applied:
\* aspirated_volume and dispensed_volume each grow by their own argument.
C34_LastOperationVolume ==
    [][(/\ Step
        /\ call'.op = "update_volume_at_nest"
        /\ call'.nest_id[1] \in 1..num_nests)
       => LET before == nests[call'.nest_id[1]].volume_info
              after == nests'[call'.nest_id[1]].volume_info
              aspirated == call'.args[1]
              dispensed == call'.args[2]
          IN  /\ after.last_operation_volume >= aspirated
              /\ after.last_operation_volume >= dispensed
              /\ after.last_operation_volume \in {aspirated, dispensed}
              /\ after.aspirated_volume = before.aspirated_volume + aspirated
              /\ after.dispensed_volume = before.dispensed_volume + dispensed]_vars

\* an update with both deltas, after an update with a larger volume on the same nest
C34_Witness ==
    /\ call.op = "update_volume_at_nest"
    /\ call.args = <<30, 50>>
    /\ previous.op = "update_volume_at_nest"
    /\ previous.args = <<100, 0>>
    /\ previous.nest_id = call.nest_id
    /\ nests[call.nest_id[1]].volume_info.last_operation_volume = 50
    /\ nests[call.nest_id[1]].volume_info.aspirated_volume >= 130
    /\ nests[call.nest_id[1]].volume_info.dispensed_volume >= 50

\* C35: in every reachable state and for every nest, aspirated_volume equals
\* total_aspirated and dispensed_volume equals total_dispensed: the lifetime
\* totals do not survive a reset, which zeroes all six volume fields together.
C35_TotalsEqualSinceReset ==
    \A i \in DOMAIN nests :
        /\ nests[i].volume_info.aspirated_volume = nests[i].volume_info.total_aspirated
        /\ nests[i].volume_info.dispensed_volume = nests[i].volume_info.total_dispensed

\* volumes updated, the deck reset, volumes updated again
C35_Witness ==
    \E i \in DOMAIN nests, m \in 3..(Len(trace) - 1) :
        /\ trace[m].op = "reset_all_nests"
        /\ trace[m - 1].op = "update_volume_at_nest"
        /\ trace[m - 1].nest_id = Some(i)
        /\ call.op = "update_volume_at_nest"
        /\ call.nest_id = Some(i)
        /\ nests[i].volume_info.total_aspirated > 0
        /\ nests[i].volume_info.total_dispensed > 0


\* C36: in every reachable state every nest's progress lies in [0, 100]:
\* update_progress(p) stores p clamped into [0, 100] and leaves status, details
\* and start_time unchanged, start_operation sets progress 0 and
\* complete_operation (also through a reset) sets it to 100.
C36_ProgressInRange ==
    /\ \A i \in DOMAIN nests : nests[i].operation_info.progress \in 0..100
    /\ [][Step =>
            \A i \in DOMAIN nests :
              LET c == call'
                  before == nests[i].operation_info
                  after == nests'[i].operation_info
                  on_i == c.nest_id = Some(i)
              IN  /\ after.progress \in 0..100
                  /\ (c.op = "update_progress" /\ on_i) =>
                        /\ after.progress =
                              (IF c.args[1] < 0 THEN 0
                               ELSE IF c.args[1] > 100 THEN 100 ELSE c.args[1])
                        /\ after.status = before.status
                        /\ after.start_time = before.start_time
                        /\ after.operation_details = before.operation_details
                        /\ heap'[after.operation_details] = heap[before.operation_details]
                  /\ (c.op = "start_operation_at_nest" /\ on_i /\ c.ret = TRUE) =>
                        after.progress = 0
                  /\ (c.op = "complete_operation_at_nest" /\ on_i) =>
                        after.progress = 100
                  /\ c.op = "reset_all_nests" => after.progress = 100]_vars

\* a progress above 100 reported for an operation under way
C36_Witness ==
    /\ call.op = "update_progress"
    /\ call.args = <<150>>
    /\ previous.op = "update_progress"
    /\ previous.args = <<0 - 5>>
    /\ previous.nest_id = call.nest_id
    /\ nests[call.nest_id[1]].operation_info.status = "aspirating"
    /\ nests[call.nest_id[1]].operation_info.progress = 100


\* C37: in simulation mode the driver tracks the liquid it holds: after
\* aspirate(v, location) on a connected driver the simulation state has
\* liquid_volume = v and last_operation = "aspirate"; after dispense(d, ...) it
\* has liquid_volume = max(0, previous liquid_volume - d) and last_operation =
\* "dispense"; tips_on / tips_off set tips_loaded to true / false; and
\* get_simulation_state() returns that state.
C37_SimulationTracksLiquid ==
    [][(Step /\ driver.simulation_mode /\ is_connected(driver)) =>
           LET c == call'
               before == driver._simulation_state[1]
               after == driver'._simulation_state[1]
           IN  /\ c.op = "aspirate" =>
                     /\ after.liquid_volume = c.args[1]
                     /\ after.last_operation = Some("aspirate")
               /\ c.op = "dispense" =>
                     /\ after.liquid_volume =
                            (IF before.liquid_volume - c.args[1] > 0
                             THEN before.liquid_volume - c.args[1] ELSE 0)
                     /\ after.last_operation = Some("dispense")
               /\ c.op = "tips_on" => after.tips_loaded = TRUE
               /\ c.op = "tips_off" => after.tips_loaded = FALSE
               /\ c.op = "get_simulation_state" =>
                     c.ret.value = driver._simulation_state]_vars


\* C38: simulate_operation_with_state(operation, position, volume) of the
\* visualizer, for an operation among aspirate, dispense, mix, wash and move on a
\* nest of the deck, follows the collaborator protocol: entering it starts an
\* operation on the nest, so that global_operation_count grows by 1 and the nest
\* is not Idle while the glow is shown; the volume is booked on the nest for
\* aspirate and dispense; and the operation is completed at the end, which
\* leaves the nest Idle.
C38_SimulateFollowsProtocol ==
    [][(IF simulation' = None THEN FALSE
        ELSE /\ op_mapping[simulation'[1].operation] /= "idle"
             /\ get_nest(simulation'[1].position) /= None) =>
           LET s == simulation'[1]
               before == nests[s.position]
               after == nests'[s.position]
           IN  /\ simulation_idle =>
                     global_operation_count' = global_operation_count + 1
               /\ ~simulation_idle =>
                     global_operation_count' = global_operation_count
               /\ s.pc \in {"volume", "glow", "complete"} =>
                     after.operation_info.status = op_mapping[s.operation]
               /\ (s.pc = "glow" /\ s.operation = "aspirate" /\ simulation /= simulation') =>
                     after.volume_info.total_aspirated =
                         before.volume_info.total_aspirated + s.volume
               /\ (s.pc = "glow" /\ s.operation = "dispense" /\ simulation /= simulation') =>
                     after.volume_info.total_dispensed =
                         before.volume_info.total_dispensed + s.volume
               /\ s.pc = "done" => after.operation_info.status = "idle"]_vars


\* C39: the driver's client loop _connect_to_visualizer always terminates: no
\* more than max_retries (10) connection attempts are refused, after the last
\* of them the loop has ended; once a connection that was established has been
\* closed the loop makes no further connection attempt; and the loop ends.
C39_ClientLoopTerminates ==
    /\ [][/\ connection'[1].retry_count <= max_retries
          /\ connection'[1].retry_count = max_retries => connection'[1].pc = "done"
          /\ ~(/\ connection[1].closed
               /\ connection[1].pc = "connect"
               /\ connection' /= connection)]_vars
    /\ <>connection_at("done")

====
